---- MODULE Spec2Model ----
(***************************************************************************)
(* Model of the awless fetcher (fetch package: cache, fetcher) and of the  *)
(* template compiler (template/compile.go).                                *)
(*                                                                         *)
(* Three specifications share this module:                                 *)
(*   SpecCache    goroutines calling cache.Get / Store / Reset             *)
(*   SpecFetch    fetcher.Fetch and fetcher.FetchByType                    *)
(*   SpecCompile  Compile: the pass pipeline over a template               *)
(***************************************************************************)
EXTENDS Integers, Sequences, FiniteSets, TLC

VARIABLES
    \* ---- fetch cache (type cache, type keyCache) ----
    cached,     \* cache.cached: key -> address of a keyCache (NoSlot = absent)
    heap,       \* the keyCache objects ever allocated, by address
    mu,         \* cache.mu: Unlocked, or held by a goroutine
    cpc,        \* per goroutine: position inside Get / Store / Reset
    cop,        \* per goroutine: the call in progress (kind, key, funcs, val)
    cslot,      \* per goroutine: local variable 'cache' of Get (an address)
    cret,       \* per goroutine: what its last completed Get returned, with
                \* history: the slot the map held for the key when its loader
                \* started (mapAtRun) and when its loader wrote (mapAtWrite)
    calls,      \* history: per keyCache, number of loader invocations
    writes,     \* history: per keyCache, number of writes of (result, err)
    origin,     \* history: per keyCache, the call that allocated it
    resetMark,  \* history: number of keyCaches allocated before the last Reset
    nops,       \* number of calls issued so far (bounded by MaxOps)
    \* ---- fetcher (type fetcher, Fetch, FetchByType, fetchResource) ----
    fetchFuncs, \* fetcher.fetchFuncs: resource type -> what its Func returns
    fcall,      \* the call in progress: Fetch() or FetchByType(type)
    fpc,        \* position of the calling goroutine
    results,    \* the results channel: buffer, capacity, closed
    wg,         \* sync.WaitGroup counter of Fetch
    wpc,        \* per resource type: position of its worker goroutine
    wres,       \* per resource type: locals of fetchResource
    clpc,       \* position of the goroutine that waits and closes
    gph,        \* local gph of Fetch / FetchByType
    ferr,       \* local ferr of Fetch: the errors added so far
    fret,       \* what Fetch / FetchByType returned
    nrecv,      \* history: number of results received by the caller
    \* ---- template compiler (Compile, multiPass.compile) ----
    cin,        \* the arguments of Compile: tpl, cenv, mode
    passes,     \* multiPass.passes
    kpc,        \* position of Compile
    kidx,       \* number of passes the loop of compile has run
    newTpl,     \* result parameter newTpl: the statements of the template
    newEnv,     \* result parameter newEnv
    kerr,       \* result parameter err
    ktrace      \* history: the passes run, with their inputs and outputs

cacheVars == <<cached, heap, mu, cpc, cop, cslot, cret, calls, writes, origin, resetMark, nops>>

fetchVars == <<fetchFuncs, fcall, fpc, results, wg, wpc, wres, clpc, gph, ferr, fret, nrecv>>

\* the cache fields proper, and the locals of the goroutines calling it
cacheProcVars == <<cpc, cop, cslot, cret, nops>>

compileVars == <<cin, passes, kpc, kidx, newTpl, newEnv, kerr, ktrace>>

nonCacheVars == <<fetchVars, compileVars>>

vars == <<cacheVars, fetchVars, compileVars>>

-----------------------------------------------------------------------------
\* Bounds of the cache specification
NumProcs == 2
MaxOps == 3
MaxSlots == 3

Procs == 1..NumProcs

Nil == "nil"

\* sync.RWMutex, used through Lock / Unlock only
Unlocked == <<>>
HeldBy(g) == <<g>>
NoSlot == 0

\* resource types a fetcher may be asked for
ResourceTypes == {"instance", "subnet"}

\* fmt.Sprintf("%s_objects", resourceType)
ObjectsKey(t) == t \o "_objects"

\* the cache keys in use
Keys == {ObjectsKey(t) : t \in ResourceTypes}

Vals == {"v1", "v2"}
Errs == {"e1"}

\* what a loader (funcs[0]) returns
LoaderOutcomes == {<<"v1", Nil>>, <<Nil, "e1">>}

\* &keyCache{} : zero value
keyCache == [result |-> Nil, err |-> Nil, once |-> "new"]

\* a stored keyCache whose guard counts as fired
keyCacheOfFired(val) == [result |-> val, err |-> Nil, once |-> "done"]

\* &keyCache{result: val}
keyCacheOf(val) == [result |-> val, err |-> Nil, once |-> "new"]

\* ---- fetcher values ----
\* a fetch function that is not registered
NoFunc == [registered |-> FALSE]

\* []*graph.Resource: a nil slice, or a slice of resources
NilSlice == [nil |-> TRUE, items |-> {}]
SliceOf(S) == [nil |-> FALSE, items |-> S]

\* the resources a fetch function of type t can return
ResourcesOf(t) == {<<t, 1>>, <<t, 2>>}

\* error values: nil, a plain error, the multi-error fetch.Error
NilErr == [kind |-> "nil"]
ErrorOf(msg) == [kind |-> "error", msg |-> msg]
MultiErr(es) == [kind |-> "multi", errs |-> es]

\* what a Func of type t may return: (resources, objects, err)
FuncOutcomes(t) ==
    [registered : {TRUE},
     resources : {NilSlice, SliceOf(ResourcesOf(t))},
     objects : {Nil, "objs_" \o t},
     err : {NilErr, ErrorOf("fetch func error " \o t)}]

\* fetchResult
NoResult == [set |-> FALSE]

\* a channel that has not been made
NoChan == [made |-> FALSE, buf |-> <<>>, cap |-> 0, closed |-> FALSE]

\* graph.NewGraph() and a nil graph
NilGraph == [nil |-> TRUE, resources |-> {}]
NewGraph == [nil |-> FALSE, resources |-> {}]

NoCall == [kind |-> "none", key |-> Nil, funcs |-> <<>>, val |-> Nil]
NoRet == [valid |-> FALSE]

\* newCache()
CacheInit ==
    /\ cached = [k \in Keys |-> NoSlot]
    /\ heap = <<>>
    /\ mu = Unlocked
    /\ cpc = [p \in Procs |-> "idle"]
    /\ cop = [p \in Procs |-> NoCall]
    /\ cslot = [p \in Procs |-> NoSlot]
    /\ cret = [p \in Procs |-> NoRet]
    /\ calls = <<>>
    /\ writes = <<>>
    /\ origin = <<>>
    /\ resetMark = 0
    /\ nops = 0

\* No compilation is going on
CompileIdle ==
    /\ cin = [tpl |-> <<>>, env |-> Nil, mode |-> <<>>]
    /\ passes = <<>>
    /\ kpc = "none"
    /\ kidx = 0
    /\ newTpl = <<>>
    /\ newEnv = Nil
    /\ kerr = Nil
    /\ ktrace = <<>>

\* The fetcher is not running (cache specification)
FetchIdle ==
    /\ fetchFuncs = [t \in ResourceTypes |-> NoFunc]
    /\ fcall = [kind |-> "none", type |-> Nil]
    /\ fpc = "idle"
    /\ results = NoChan
    /\ wg = 0
    /\ wpc = [t \in ResourceTypes |-> "none"]
    /\ wres = [t \in ResourceTypes |-> NoResult]
    /\ clpc = "none"
    /\ gph = NilGraph
    /\ ferr = <<>>
    /\ fret = [valid |-> FALSE]
    /\ nrecv = 0

-----------------------------------------------------------------------------
\* A goroutine calls c.Get(key) or c.Get(key, loader)
GetCall(p) ==
    /\ cpc[p] = "idle"
    /\ nops < MaxOps
    /\ \E k \in Keys, fs \in {<<>>} \cup {<<o>> : o \in LoaderOutcomes} :
          cop' = [cop EXCEPT ![p] = [kind |-> "get", key |-> k, funcs |-> fs, val |-> Nil]]
    /\ cpc' = [cpc EXCEPT ![p] = "g_lock"]
    /\ cret' = [cret EXCEPT ![p] = NoRet]
    /\ cslot' = [cslot EXCEPT ![p] = NoSlot]
    /\ nops' = nops + 1
    /\ UNCHANGED <<cached, heap, mu, calls, writes, origin, resetMark>>
    /\ UNCHANGED nonCacheVars

\* c.mu.Lock() in Get
GetLock(p) ==
    /\ cpc[p] = "g_lock"
    /\ mu = Unlocked
    /\ mu' = HeldBy(p)
    /\ cpc' = [cpc EXCEPT ![p] = "g_map"]
    /\ UNCHANGED <<cached, heap, cop, cslot, cret, calls, writes, origin, resetMark, nops>>
    /\ UNCHANGED nonCacheVars

\* cache, ok := c.cached[key]; if !ok { cache = &keyCache{}; c.cached[key] = cache }
\* c.mu.Unlock(); and the test len(funcs) > 0
GetSlot(p) ==
    /\ cpc[p] = "g_map"
    /\ mu = HeldBy(p)
    /\ LET k == cop[p].key
           ok == cached[k] # NoSlot
           addr == IF ok THEN cached[k] ELSE Len(heap) + 1
       IN  /\ ok \/ Len(heap) < MaxSlots
           /\ cslot' = [cslot EXCEPT ![p] = addr]
           /\ IF ok
                THEN UNCHANGED <<cached, heap, calls, writes, origin>>
                ELSE /\ heap' = Append(heap, keyCache)
                     /\ cached' = [cached EXCEPT ![k] = addr]
                     /\ calls' = Append(calls, 0)
                     /\ writes' = Append(writes, 0)
                     /\ origin' = Append(origin, [kind |-> "get", key |-> k, val |-> Nil])
           /\ cret' = [cret EXCEPT ![p] =
                         [valid |-> FALSE, sawDone |-> ok /\ heap[addr].once = "done",
                          ran |-> FALSE, mapAtRun |-> NoSlot, mapAtWrite |-> NoSlot]]
    /\ mu' = Unlocked
    /\ cpc' = [cpc EXCEPT ![p] = IF Len(cop[p].funcs) > 0 THEN "g_once" ELSE "g_ret"]
    /\ UNCHANGED <<cop, resetMark, nops>>
    /\ UNCHANGED nonCacheVars

\* a once guard that tests only its done flag, without mutual exclusion
OnceDoRunUnguarded(p) ==
    /\ cpc[p] = "g_once"
    /\ heap[cslot[p]].once # "done"
    /\ heap' = [heap EXCEPT ![cslot[p]].once = "running"]
    /\ calls' = [calls EXCEPT ![cslot[p]] = @ + 1]
    /\ cpc' = [cpc EXCEPT ![p] = "g_load"]
    /\ cret' = [cret EXCEPT ![p].ran = TRUE, ![p].mapAtRun = cached[cop[p].key]]
    /\ UNCHANGED <<cached, mu, cop, cslot, writes, origin, resetMark, nops>>
    /\ UNCHANGED nonCacheVars

\* cache.once.Do(f), first caller: the guard has not fired, f is invoked
OnceDoRun(p) ==
    /\ cpc[p] = "g_once"
    /\ heap[cslot[p]].once = "new"
    /\ heap' = [heap EXCEPT ![cslot[p]].once = "running"]
    /\ calls' = [calls EXCEPT ![cslot[p]] = @ + 1]
    /\ cpc' = [cpc EXCEPT ![p] = "g_load"]
    /\ cret' = [cret EXCEPT ![p].ran = TRUE, ![p].mapAtRun = cached[cop[p].key]]
    /\ UNCHANGED <<cached, mu, cop, cslot, writes, origin, resetMark, nops>>
    /\ UNCHANGED nonCacheVars

\* a once guard that does not wait for the call in progress
OnceDoSkipNoWait(p) ==
    /\ cpc[p] = "g_once"
    /\ heap[cslot[p]].once # "new"
    /\ cpc' = [cpc EXCEPT ![p] = "g_ret"]
    /\ UNCHANGED <<cached, heap, mu, cop, cslot, cret, calls, writes, origin, resetMark, nops>>
    /\ UNCHANGED nonCacheVars

\* cache.once.Do(f), f already completed: returns at once
\* (while f is running in another goroutine, Do blocks: no step is enabled)
OnceDoSkip(p) ==
    /\ cpc[p] = "g_once"
    /\ heap[cslot[p]].once = "done"
    /\ cpc' = [cpc EXCEPT ![p] = "g_ret"]
    /\ UNCHANGED <<cached, heap, mu, cop, cslot, cret, calls, writes, origin, resetMark, nops>>
    /\ UNCHANGED nonCacheVars

\* a loader whose outcome is written to the slot the map holds for the key
\* at the time of the write, not to the slot the Get looked up
LoaderReturnToMap(p) ==
    /\ cpc[p] = "g_load"
    /\ LET o == cop[p].funcs[1]
           k == cop[p].key
           a == IF cached[k] # NoSlot THEN cached[k] ELSE cslot[p]
       IN /\ heap' = [heap EXCEPT ![a].result = o[1], ![a].err = o[2],
                                  ![cslot[p]].once = "done"]
          /\ writes' = [writes EXCEPT ![a] = @ + 1]
    /\ cret' = [cret EXCEPT ![p].mapAtWrite = cached[cop[p].key]]
    /\ cpc' = [cpc EXCEPT ![p] = "g_ret"]
    /\ UNCHANGED <<cached, mu, cop, cslot, calls, origin, resetMark, nops>>
    /\ UNCHANGED nonCacheVars

\* cache.result, cache.err = funcs[0]() ; then once.Do marks the guard done
LoaderReturn(p) ==
    /\ cpc[p] = "g_load"
    /\ LET o == cop[p].funcs[1]
       IN heap' = [heap EXCEPT ![cslot[p]] = [result |-> o[1], err |-> o[2], once |-> "done"]]
    /\ writes' = [writes EXCEPT ![cslot[p]] = @ + 1]
    /\ cret' = [cret EXCEPT ![p].mapAtWrite = cached[cop[p].key]]
    /\ cpc' = [cpc EXCEPT ![p] = "g_ret"]
    /\ UNCHANGED <<cached, mu, cop, cslot, calls, origin, resetMark, nops>>
    /\ UNCHANGED nonCacheVars

\* The goroutine running the loader of slot a, if any
LoaderOf(a) == {q \in Procs : cpc[q] = "g_load" /\ cslot[q] = a}

\* Values a read of cache.result / cache.err can yield.  A Get without loader
\* does not synchronise with the goroutine inside once.Do: while that loader
\* runs the two reads race with its two writes and each may see old or new.
ReadResult(a) ==
    {heap[a].result} \cup {cop[q].funcs[1][1] : q \in LoaderOf(a)}

ReadErr(a) ==
    {heap[a].err} \cup {cop[q].funcs[1][2] : q \in LoaderOf(a)}

\* return cache.result, cache.err
GetReturn(p) ==
    /\ cpc[p] = "g_ret"
    /\ \E r \in ReadResult(cslot[p]), e \in ReadErr(cslot[p]) :
          cret' = [cret EXCEPT ![p] =
                     [valid |-> TRUE, key |-> cop[p].key, slot |-> cslot[p],
                      loader |-> Len(cop[p].funcs) > 0, sawDone |-> cret[p].sawDone,
                      ran |-> cret[p].ran, funcs |-> cop[p].funcs,
                      mapAtRun |-> cret[p].mapAtRun, mapAtWrite |-> cret[p].mapAtWrite,
                      result |-> r, err |-> e]]
    /\ cpc' = [cpc EXCEPT ![p] = "idle"]
    /\ cop' = [cop EXCEPT ![p] = NoCall]
    /\ UNCHANGED <<cached, heap, mu, cslot, calls, writes, origin, resetMark, nops>>
    /\ UNCHANGED nonCacheVars

-----------------------------------------------------------------------------
\* A goroutine calls c.Store(key, val)
StoreCall(p) ==
    /\ cpc[p] = "idle"
    /\ nops < MaxOps
    /\ \E k \in Keys, v \in Vals :
          cop' = [cop EXCEPT ![p] = [kind |-> "store", key |-> k, funcs |-> <<>>, val |-> v]]
    /\ cpc' = [cpc EXCEPT ![p] = "s_lock"]
    /\ nops' = nops + 1
    /\ UNCHANGED <<cached, heap, mu, cslot, cret, calls, writes, origin, resetMark>>
    /\ UNCHANGED nonCacheVars

\* c.mu.Lock() in Store
StoreLock(p) ==
    /\ cpc[p] = "s_lock"
    /\ mu = Unlocked
    /\ mu' = HeldBy(p)
    /\ cpc' = [cpc EXCEPT ![p] = "s_map"]
    /\ UNCHANGED <<cached, heap, cop, cslot, cret, calls, writes, origin, resetMark, nops>>
    /\ UNCHANGED nonCacheVars

\* c.cached[key] = &keyCache{result: val}
StoreBody(key, val) ==
    /\ heap' = Append(heap, keyCacheOf(val))
    /\ cached' = [cached EXCEPT ![key] = Len(heap) + 1]
    /\ calls' = Append(calls, 0)
    /\ writes' = Append(writes, 0)
    /\ origin' = Append(origin, [kind |-> "store", key |-> key, val |-> val])

\* Store, holding the lock: the map write, then c.mu.Unlock()
StoreSlot(p) ==
    /\ cpc[p] = "s_map"
    /\ mu = HeldBy(p)
    /\ Len(heap) < MaxSlots
    /\ StoreBody(cop[p].key, cop[p].val)
    /\ mu' = Unlocked
    /\ cpc' = [cpc EXCEPT ![p] = "idle"]
    /\ cop' = [cop EXCEPT ![p] = NoCall]
    /\ UNCHANGED <<cslot, cret, resetMark, nops>>
    /\ UNCHANGED nonCacheVars

\* A goroutine calls c.Reset()
ResetCall(p) ==
    /\ cpc[p] = "idle"
    /\ nops < MaxOps
    /\ cop' = [cop EXCEPT ![p] = [kind |-> "reset", key |-> Nil, funcs |-> <<>>, val |-> Nil]]
    /\ cpc' = [cpc EXCEPT ![p] = "r_lock"]
    /\ nops' = nops + 1
    /\ UNCHANGED <<cached, heap, mu, cslot, cret, calls, writes, origin, resetMark>>
    /\ UNCHANGED nonCacheVars

\* c.mu.Lock() in Reset
ResetLock(p) ==
    /\ cpc[p] = "r_lock"
    /\ mu = Unlocked
    /\ mu' = HeldBy(p)
    /\ cpc' = [cpc EXCEPT ![p] = "r_map"]
    /\ UNCHANGED <<cached, heap, cop, cslot, cret, calls, writes, origin, resetMark, nops>>
    /\ UNCHANGED nonCacheVars

\* a Reset that leaves the map as it is
ResetMapKeep(p) ==
    /\ cpc[p] = "r_map"
    /\ mu = HeldBy(p)
    /\ cached' = cached
    /\ resetMark' = Len(heap)
    /\ mu' = Unlocked
    /\ cpc' = [cpc EXCEPT ![p] = "idle"]
    /\ cop' = [cop EXCEPT ![p] = NoCall]
    /\ UNCHANGED <<heap, cslot, cret, calls, writes, origin, nops>>
    /\ UNCHANGED nonCacheVars

\* c.cached = make(map[string]*keyCache); c.mu.Unlock()
ResetMap(p) ==
    /\ cpc[p] = "r_map"
    /\ mu = HeldBy(p)
    /\ cached' = [k \in Keys |-> NoSlot]
    /\ resetMark' = Len(heap)
    /\ mu' = Unlocked
    /\ cpc' = [cpc EXCEPT ![p] = "idle"]
    /\ cop' = [cop EXCEPT ![p] = NoCall]
    /\ UNCHANGED <<heap, cslot, cret, calls, writes, origin, nops>>
    /\ UNCHANGED nonCacheVars

CacheNext ==
    \E p \in Procs :
        \/ GetCall(p)
        \/ GetLock(p)
        \/ GetSlot(p)
        \/ OnceDoRun(p)
        \/ OnceDoSkip(p)
        \/ LoaderReturn(p)
        \/ GetReturn(p)
        \/ StoreCall(p)
        \/ StoreLock(p)
        \/ StoreSlot(p)
        \/ ResetCall(p)
        \/ ResetLock(p)
        \/ ResetMap(p)

\* a fresh cache used by goroutines; no fetch in progress
InitCache == CacheInit /\ FetchIdle /\ CompileIdle

SpecCache == InitCache /\ [][CacheNext]_vars

-----------------------------------------------------------------------------
\* fetcher

\* NewFetcher(funcs): any set of registered fetch functions, a fresh cache
FetchInit ==
    /\ fetchFuncs \in [ResourceTypes -> UNION {FuncOutcomes(t) : t \in ResourceTypes} \cup {NoFunc}]
    /\ \A t \in ResourceTypes : fetchFuncs[t] = NoFunc \/ fetchFuncs[t] \in FuncOutcomes(t)
    /\ fcall = [kind |-> "none", type |-> Nil]
    /\ fpc = "idle"
    /\ results = NoChan
    /\ wg = 0
    /\ wpc = [t \in ResourceTypes |-> "none"]
    /\ wres = [t \in ResourceTypes |-> NoResult]
    /\ clpc = "none"
    /\ gph = NilGraph
    /\ ferr = <<>>
    /\ fret = [valid |-> FALSE]
    /\ nrecv = 0

\* f.resourceTypes, as a set: the keys of funcs
resourceTypes == {t \in ResourceTypes : fetchFuncs[t].registered}

\* the Cardinality of a finite set of resource types
RECURSIVE Count(_)
Count(S) == IF S = {} THEN 0 ELSE LET x == CHOOSE y \in S : TRUE IN 1 + Count(S \ {x})

\* a Fetch whose results channel has no buffer
FetchCallUnbuffered ==
    /\ fpc = "idle"
    /\ fcall.kind = "none"
    /\ fcall' = [kind |-> "Fetch", type |-> Nil]
    /\ results' = [made |-> TRUE, buf |-> <<>>, cap |-> 0, closed |-> FALSE]
    /\ wg' = 0
    /\ fpc' = "spawn"
    /\ UNCHANGED <<fetchFuncs, wpc, wres, clpc, gph, ferr, fret, nrecv>>
    /\ UNCHANGED cacheVars
    /\ UNCHANGED compileVars

\* Fetch: results := make(chan fetchResult, len(f.resourceTypes)); var wg
FetchCall ==
    /\ fpc = "idle"
    /\ fcall.kind = "none"
    /\ fcall' = [kind |-> "Fetch", type |-> Nil]
    /\ results' = [made |-> TRUE, buf |-> <<>>, cap |-> Count(resourceTypes), closed |-> FALSE]
    /\ wg' = 0
    /\ fpc' = "spawn"
    /\ UNCHANGED <<fetchFuncs, wpc, wres, clpc, gph, ferr, fret, nrecv>>
    /\ UNCHANGED cacheVars
    /\ UNCHANGED compileVars

\* for _, resType := range f.resourceTypes { wg.Add(1); go func(...) }
\* (the slice order comes from a map iteration: any order)
FetchSpawn(t) ==
    /\ fpc = "spawn"
    /\ t \in resourceTypes
    /\ wpc[t] = "none"
    /\ wg' = wg + 1
    /\ wpc' = [wpc EXCEPT ![t] = "start"]
    /\ UNCHANGED <<fetchFuncs, fcall, fpc, results, wres, clpc, gph, ferr, fret, nrecv>>
    /\ UNCHANGED cacheVars
    /\ UNCHANGED compileVars

\* go func() { wg.Wait(); close(results) }() ; gph := graph.NewGraph(); ferr := new(Error)
FetchSpawnCloser ==
    /\ fpc = "spawn"
    /\ \A t \in resourceTypes : wpc[t] # "none"
    /\ clpc' = "wait"
    /\ gph' = NewGraph
    /\ ferr' = <<>>
    /\ fpc' = "range"
    /\ UNCHANGED <<fetchFuncs, fcall, results, wg, wpc, wres, fret, nrecv>>
    /\ UNCHANGED cacheVars
    /\ UNCHANGED compileVars

\* fetchResource: fn, ok := f.fetchFuncs[resourceType]; call fn or set the error
WorkerCall(t) ==
    /\ wpc[t] = "start"
    /\ LET fn == fetchFuncs[t]
       IN wres' = [wres EXCEPT ![t] =
            IF fn.registered
              THEN [set |-> TRUE, ResourceType |-> t, Err |-> fn.err,
                    Resources |-> fn.resources, Objects |-> fn.objects]
              ELSE [set |-> TRUE, ResourceType |-> t,
                    Err |-> ErrorOf("no fetch func defined for resource type '" \o t \o "'"),
                    Resources |-> SliceOf({}), Objects |-> Nil]]
    /\ wpc' = [wpc EXCEPT ![t] = "store"]
    /\ UNCHANGED <<fetchFuncs, fcall, fpc, results, wg, clpc, gph, ferr, fret, nrecv>>
    /\ UNCHANGED cacheVars
    /\ UNCHANGED compileVars

\* f.cache.Store(...): c.mu.Lock()
WorkerStoreLock(t) ==
    /\ wpc[t] = "store"
    /\ mu = Unlocked
    /\ mu' = HeldBy(t)
    /\ wpc' = [wpc EXCEPT ![t] = "store_map"]
    /\ UNCHANGED <<fetchFuncs, fcall, fpc, results, wg, wres, clpc, gph, ferr, fret, nrecv>>
    /\ UNCHANGED <<cached, heap, calls, writes, origin, resetMark>>
    /\ UNCHANGED cacheProcVars
    /\ UNCHANGED compileVars

\* a worker that stores the objects of a successful fetch only
WorkerStoreOnSuccess(t) ==
    /\ wpc[t] = "store_map"
    /\ mu = HeldBy(t)
    /\ IF wres[t].Err = NilErr
         THEN StoreBody(ObjectsKey(t), wres[t].Objects)
         ELSE UNCHANGED <<cached, heap, calls, writes, origin>>
    /\ mu' = Unlocked
    /\ wpc' = [wpc EXCEPT ![t] = "send"]
    /\ UNCHANGED <<fetchFuncs, fcall, fpc, results, wg, wres, clpc, gph, ferr, fret, nrecv>>
    /\ UNCHANGED <<cacheProcVars, resetMark>>
    /\ UNCHANGED compileVars

\* f.cache.Store(fmt.Sprintf("%s_objects", resourceType), objects): map write, Unlock
WorkerStore(t) ==
    /\ wpc[t] = "store_map"
    /\ mu = HeldBy(t)
    /\ StoreBody(ObjectsKey(t), wres[t].Objects)
    /\ mu' = Unlocked
    /\ wpc' = [wpc EXCEPT ![t] = "send"]
    /\ UNCHANGED <<fetchFuncs, fcall, fpc, results, wg, wres, clpc, gph, ferr, fret, nrecv>>
    /\ UNCHANGED <<cacheProcVars, resetMark>>
    /\ UNCHANGED compileVars

\* results <- fetchResult{...} on the buffered channel of Fetch
\* (a send on a closed channel panics)
WorkerSend(t) ==
    /\ wpc[t] = "send"
    /\ fcall.kind = "Fetch"
    /\ IF results.closed
         THEN /\ wpc' = [wpc EXCEPT ![t] = "panic"]
              /\ UNCHANGED results
         ELSE /\ Len(results.buf) < results.cap
              /\ results' = [results EXCEPT !.buf = Append(@, wres[t])]
              /\ wpc' = [wpc EXCEPT ![t] = "sent"]
    /\ UNCHANGED <<fetchFuncs, fcall, fpc, wg, wres, clpc, gph, ferr, fret, nrecv>>
    /\ UNCHANGED cacheVars
    /\ UNCHANGED compileVars

\* wg.Done()
WorkerDone(t) ==
    /\ wpc[t] = "sent"
    /\ fcall.kind = "Fetch"
    /\ wg' = wg - 1
    /\ wpc' = [wpc EXCEPT ![t] = "done"]
    /\ UNCHANGED <<fetchFuncs, fcall, fpc, results, wres, clpc, gph, ferr, fret, nrecv>>
    /\ UNCHANGED cacheVars
    /\ UNCHANGED compileVars

\* a closer that does not wait for the workers
CloserNoWait ==
    /\ clpc = "wait"
    /\ clpc' = "close"
    /\ UNCHANGED <<fetchFuncs, fcall, fpc, results, wg, wpc, wres, gph, ferr, fret, nrecv>>
    /\ UNCHANGED cacheVars
    /\ UNCHANGED compileVars

\* wg.Wait() returns when the counter is zero
CloserWait ==
    /\ clpc = "wait"
    /\ wg = 0
    /\ clpc' = "close"
    /\ UNCHANGED <<fetchFuncs, fcall, fpc, results, wg, wpc, wres, gph, ferr, fret, nrecv>>
    /\ UNCHANGED cacheVars
    /\ UNCHANGED compileVars

\* close(results)
CloserClose ==
    /\ clpc = "close"
    /\ results' = [results EXCEPT !.closed = TRUE]
    /\ clpc' = "done"
    /\ UNCHANGED <<fetchFuncs, fcall, fpc, wg, wpc, wres, gph, ferr, fret, nrecv>>
    /\ UNCHANGED cacheVars
    /\ UNCHANGED compileVars

\* gph.AddResource(rs...)
AddResource(g, rs) == [g EXCEPT !.resources = @ \cup rs.items]

\* a receive loop that drops the resources of a failed result
FetchReceiveDropFailed ==
    /\ fpc = "range"
    /\ Len(results.buf) > 0
    /\ LET res == Head(results.buf)
       IN /\ ferr' = IF res.Err # NilErr THEN Append(ferr, res.Err) ELSE ferr
          /\ gph' = IF res.Err # NilErr THEN gph ELSE AddResource(gph, res.Resources)
    /\ results' = [results EXCEPT !.buf = Tail(@)]
    /\ nrecv' = nrecv + 1
    /\ UNCHANGED <<fetchFuncs, fcall, fpc, wg, wpc, wres, clpc, fret>>
    /\ UNCHANGED cacheVars
    /\ UNCHANGED compileVars

\* for res := range results { if res.Err != nil { ferr.Add(err) }; gph.AddResource(res.Resources...) }
FetchReceive ==
    /\ fpc = "range"
    /\ Len(results.buf) > 0
    /\ LET res == Head(results.buf)
       IN /\ ferr' = IF res.Err # NilErr THEN Append(ferr, res.Err) ELSE ferr
          /\ gph' = AddResource(gph, res.Resources)
    /\ results' = [results EXCEPT !.buf = Tail(@)]
    /\ nrecv' = nrecv + 1
    /\ UNCHANGED <<fetchFuncs, fcall, fpc, wg, wpc, wres, clpc, fret>>
    /\ UNCHANGED cacheVars
    /\ UNCHANGED compileVars

\* the range loop ends on the closed, drained channel;
\* if ferr.Any() { return gph, ferr }; return gph, nil
FetchReturn ==
    /\ fpc = "range"
    /\ Len(results.buf) = 0
    /\ results.closed
    /\ fret' = [valid |-> TRUE, gph |-> gph,
                err |-> IF Len(ferr) > 0 THEN MultiErr(ferr) ELSE NilErr]
    /\ fpc' = "returned"
    /\ UNCHANGED <<fetchFuncs, fcall, results, wg, wpc, wres, clpc, gph, ferr, nrecv>>
    /\ UNCHANGED cacheVars
    /\ UNCHANGED compileVars

\* FetchByType(ctx, resourceType): results := make(chan fetchResult);
\* go f.fetchResource(ctx, resourceType, results); gph := graph.NewGraph()
FetchByTypeCall(t) ==
    /\ fpc = "idle"
    /\ fcall.kind = "none"
    /\ fcall' = [kind |-> "FetchByType", type |-> t]
    /\ results' = [made |-> TRUE, buf |-> <<>>, cap |-> 0, closed |-> FALSE]
    /\ wpc' = [wpc EXCEPT ![t] = "start"]
    /\ gph' = NewGraph
    /\ fpc' = "select"
    /\ UNCHANGED <<fetchFuncs, wg, wres, clpc, ferr, fret, nrecv>>
    /\ UNCHANGED cacheVars
    /\ UNCHANGED compileVars

\* a FetchByType that returns no graph with an error
FetchByTypeReceiveNilGraph(t) ==
    /\ fpc = "select"
    /\ fcall.kind = "FetchByType"
    /\ wpc[t] = "send"
    /\ ~results.closed
    /\ LET res == wres[t]
       IN IF res.Err # NilErr
            THEN /\ fret' = [valid |-> TRUE, gph |-> NilGraph, err |-> res.Err]
                 /\ UNCHANGED gph
            ELSE /\ gph' = AddResource(gph, res.Resources)
                 /\ fret' = [valid |-> TRUE, gph |-> gph', err |-> NilErr]
    /\ wpc' = [wpc EXCEPT ![t] = "done"]
    /\ results' = [results EXCEPT !.closed = TRUE]
    /\ nrecv' = nrecv + 1
    /\ fpc' = "returned"
    /\ UNCHANGED <<fetchFuncs, fcall, wg, wres, clpc, ferr>>
    /\ UNCHANGED cacheVars
    /\ UNCHANGED compileVars

\* select { case res := <-results: ... } meets the worker's send on the
\* unbuffered channel; the caller returns and the deferred close(results) runs
FetchByTypeReceive(t) ==
    /\ fpc = "select"
    /\ fcall.kind = "FetchByType"
    /\ wpc[t] = "send"
    /\ ~results.closed
    /\ LET res == wres[t]
       IN IF res.Err # NilErr
            THEN /\ fret' = [valid |-> TRUE, gph |-> gph, err |-> res.Err]
                 /\ UNCHANGED gph
            ELSE /\ gph' = AddResource(gph, res.Resources)
                 /\ fret' = [valid |-> TRUE, gph |-> gph', err |-> NilErr]
    /\ wpc' = [wpc EXCEPT ![t] = "done"]
    /\ results' = [results EXCEPT !.closed = TRUE]
    /\ nrecv' = nrecv + 1
    /\ fpc' = "returned"
    /\ UNCHANGED <<fetchFuncs, fcall, wg, wres, clpc, ferr>>
    /\ UNCHANGED cacheVars
    /\ UNCHANGED compileVars

FetchNext ==
    \/ FetchCall
    \/ \E t \in ResourceTypes : FetchSpawn(t)
    \/ FetchSpawnCloser
    \/ \E t \in ResourceTypes : WorkerCall(t)
    \/ \E t \in ResourceTypes : WorkerStoreLock(t)
    \/ \E t \in ResourceTypes : WorkerStore(t)
    \/ \E t \in ResourceTypes : WorkerSend(t)
    \/ \E t \in ResourceTypes : WorkerDone(t)
    \/ CloserWait
    \/ CloserClose
    \/ FetchReceive
    \/ FetchReturn
    \/ \E t \in ResourceTypes : FetchByTypeCall(t)
    \/ \E t \in ResourceTypes : FetchByTypeReceive(t)

\* NewFetcher: the registered functions and a fresh cache
InitFetch == CacheInit /\ FetchInit /\ CompileIdle

SpecFetch == InitFetch /\ [][FetchNext]_vars

\* Scheduling: every goroutine that can take a step eventually takes it.  The
\* workers (their fetch function returns), the closing goroutine and the
\* goroutine inside Fetch are scheduled; nothing obliges anyone to call Fetch
\* or FetchByType.
FetchFairness ==
    /\ \A t \in ResourceTypes :
          /\ WF_vars(FetchSpawn(t))
          /\ WF_vars(WorkerCall(t))
          /\ WF_vars(WorkerStoreLock(t))
          /\ WF_vars(WorkerStore(t))
          /\ WF_vars(WorkerSend(t))
          /\ WF_vars(WorkerDone(t))
    /\ WF_vars(FetchSpawnCloser)
    /\ WF_vars(CloserWait)
    /\ WF_vars(CloserClose)
    /\ WF_vars(FetchReceive)
    /\ WF_vars(FetchReturn)

\* the fetcher under a fair scheduler
SpecFetchLive == InitFetch /\ [][FetchNext]_vars /\ FetchFairness

-----------------------------------------------------------------------------
\* Properties of the fetch cache (SpecCache)

\* the (result, err) pair a completed Get returned
Returned(p) == <<cret[p].result, cret[p].err>>

\* the pair held by a keyCache
Held(a) == <<heap[a].result, heap[a].err>>

\* C1: a loader is invoked at most once per slot, and exactly once as soon as
\* one Get that supplied a loader has returned from that slot, however many
\* Gets supply a loader.
C1_LoaderOncePerSlot ==
    /\ \A a \in DOMAIN heap : calls[a] <= 1
    /\ \A p \in Procs :
          cret[p].valid /\ cret[p].loader => calls[cret[p].slot] = 1

C1_Witness ==
    \E p, q \in Procs :
        /\ p # q
        /\ cret[p].valid /\ cret[q].valid
        /\ cret[p].loader /\ cret[q].loader
        /\ cret[p].slot = cret[q].slot
        /\ cret[p].funcs # cret[q].funcs
        /\ calls[cret[p].slot] = 1

\* C6: a slot made by Store(k, v) holds (v, nil) with a guard that has not
\* fired: a Get without loader returning from it before any loader ran
\* returns (v, nil), and a Get with loader returning from it has had the
\* loader invoked on it (once), also when a loader ran for k before the Store.
C6_StoreResetsGuard ==
    /\ \A a \in DOMAIN heap :
          origin[a].kind = "store" /\ calls[a] = 0 =>
              heap[a] = [result |-> origin[a].val, err |-> Nil, once |-> "new"]
    /\ \A p \in Procs :
          cret[p].valid /\ origin[cret[p].slot].kind = "store" =>
              LET a == cret[p].slot
              IN IF cret[p].loader
                   THEN calls[a] = 1 /\ heap[a].once = "done"
                   ELSE calls[a] = 0 => Returned(p) = <<origin[a].val, Nil>>

C6_Witness ==
    \E p \in Procs, a, b \in DOMAIN heap :
        /\ a < b
        /\ origin[a].key = origin[b].key
        /\ calls[a] = 1
        /\ origin[b].kind = "store"
        /\ cret[p].valid /\ cret[p].loader /\ cret[p].slot = b /\ cret[p].ran
        /\ Returned(p) # <<origin[b].val, Nil>>

\* C7: Reset drops every slot: no slot allocated before the last Reset is in
\* the map; a Get after it finds an empty slot, returns (nil, nil) when it
\* supplies no loader (and none ran meanwhile), and has the loader invoked
\* when it supplies one.
C7_ResetDropsAll ==
    /\ \A k \in Keys : cached[k] # NoSlot => cached[k] > resetMark
    /\ \A p \in Procs :
          cret[p].valid /\ cret[p].slot > resetMark /\ origin[cret[p].slot].kind = "get" =>
              LET a == cret[p].slot
              IN IF cret[p].loader
                   THEN calls[a] = 1
                   ELSE calls[a] = 0 => Returned(p) = <<Nil, Nil>>

C7_Witness ==
    \E p \in Procs, a, b \in DOMAIN heap :
        /\ a <= resetMark /\ resetMark < b
        /\ origin[a].key = origin[b].key
        /\ calls[a] = 1 /\ heap[a].once = "done"
        /\ origin[b].kind = "get"
        /\ cret[p].valid /\ cret[p].loader /\ cret[p].slot = b /\ cret[p].ran

\* C9: every Get that supplied a loader, and every Get issued after the
\* loader of its slot completed, returns the pair of the one loader run of
\* that slot; all of them agree, and a Get issued after completion runs no
\* loader.
C9_SamePair ==
    \A p \in Procs :
        cret[p].valid /\ (cret[p].loader \/ cret[p].sawDone) =>
            LET a == cret[p].slot
            IN /\ heap[a].once = "done"
               /\ Returned(p) = Held(a)
               /\ cret[p].sawDone => ~cret[p].ran
               /\ \A q \in Procs :
                     cret[q].valid /\ cret[q].slot = a =>
                        /\ cret[q].ran => Returned(p) = cret[q].funcs[1]
                        /\ cret[q].loader \/ cret[q].sawDone => Returned(q) = Returned(p)

C9_Witness ==
    \E p, q \in Procs :
        /\ p # q
        /\ cret[p].valid /\ cret[q].valid
        /\ cret[p].slot = cret[q].slot
        /\ cret[p].ran
        /\ cret[q].loader /\ ~cret[q].sawDone /\ ~cret[q].ran
        /\ cret[q].funcs # cret[p].funcs
        /\ Returned(q) = cret[p].funcs[1]

\* the pair a keyCache is constructed with: (v, nil) by Store(k, v), (nil, nil)
\* by Get
Constructed(a) == <<origin[a].val, Nil>>

\* C21 as stated: each slot has its (result, err) written at most once during its
\* lifetime: a slot created empty by Get is written once by its loader, and a
\* slot created by Store(k, v), which already holds v, is not written again
\* by a later Get(k, loader).
C21_WrittenOncePerLifetime ==
    \A a \in DOMAIN heap :
        /\ writes[a] <= 1
        /\ origin[a].kind = "store" => writes[a] = 0 /\ Held(a) = Constructed(a)

\* C21 amended: after its construction a slot is assigned at most once, and
\* only by the one loader run its guard lets through: the assignment has
\* happened exactly when the guard has fired, until then the slot holds the
\* pair it was constructed with, and every Get that supplied a loader returns
\* from a slot that has been assigned once, whether Get or Store created it.
C21_WrittenOncePerGuard ==
    /\ \A a \in DOMAIN heap :
          /\ writes[a] <= 1
          /\ writes[a] = calls[a] - Cardinality(LoaderOf(a))
          /\ writes[a] = 1 <=> heap[a].once = "done"
          /\ writes[a] = 0 => Held(a) = Constructed(a)
    /\ \A p \in Procs :
          cret[p].valid /\ cret[p].loader => writes[cret[p].slot] = 1

\* a slot created by Store(k, v) that a later Get(k, loader) has written,
\* and one created empty by Get that its loader has written
C21_Witness ==
    \E a, b \in DOMAIN heap :
        /\ origin[a].kind = "store" /\ writes[a] = 1 /\ Held(a) # Constructed(a)
        /\ origin[b].kind = "get" /\ writes[b] = 1

\* The completed Get of p ran its loader and was overtaken: the loader
\* started on the slot the map held for the key, and when it wrote, a Store
\* or a Reset had taken that slot out of the map.
Overtaken(p) ==
    /\ cret[p].valid /\ cret[p].ran
    /\ cret[p].mapAtRun = cret[p].slot
    /\ cret[p].mapAtWrite # cret[p].slot

\* C22: a loader overtaken by Store(k, v) or Reset writes only the detached
\* slot its Get looked up.  The Get that ran a loader returns that loader's
\* pair; the slot taken out of the map never comes back into it; a slot on
\* which no loader ran holds the pair it was constructed with, so a Get of k
\* without loader that finds the newer slot returns (v, nil) after a Store and
\* (nil, nil) after a Reset, as long as no loader-Get ran on that slot.
C22_LateLoaderDetached ==
    /\ \A p \in Procs :
          cret[p].valid /\ cret[p].ran =>
              /\ Returned(p) = cret[p].funcs[1]
              /\ Held(cret[p].slot) = cret[p].funcs[1]
    /\ \A p \in Procs :
          Overtaken(p) => cached[cret[p].key] # cret[p].slot
    /\ \A b \in DOMAIN heap :
          calls[b] = 0 => Held(b) = Constructed(b)
    /\ \A q \in Procs :
          cret[q].valid /\ ~cret[q].loader /\ calls[cret[q].slot] = 0 =>
              Returned(q) = Constructed(cret[q].slot)

\* a Store replaced the slot while the loader of p was running: p returned
\* its loader's pair, the map holds the stored slot, which still holds v, and
\* a Get without loader returned (v, nil) from it
C22_Witness ==
    \E p, q \in Procs :
        /\ p # q
        /\ Overtaken(p)
        /\ cret[p].mapAtWrite # NoSlot
        /\ LET b == cret[p].mapAtWrite
           IN /\ origin[b].kind = "store"
              /\ cached[cret[p].key] = b
              /\ calls[b] = 0
              /\ Returned(p) = cret[p].funcs[1]
              /\ Returned(p) # Constructed(b)
              /\ cret[q].valid /\ ~cret[q].loader /\ cret[q].slot = b
              /\ Returned(q) = Constructed(b)

-----------------------------------------------------------------------------
\* Properties of the fetcher (SpecFetch)

\* the registered fetch functions that return an error
Failing == {t \in resourceTypes : fetchFuncs[t].err # NilErr}

\* the elements of a sequence
Range(s) == {s[i] : i \in DOMAIN s}

\* C3: Fetch returns a non-nil graph with every resource returned by every
\* fetch function (failing ones included); the error is nil iff no fetch
\* function failed, else a multi-error with one entry per failing function.
C3_FetchAggregates ==
    fret.valid /\ fcall.kind = "Fetch" =>
        /\ ~fret.gph.nil
        /\ \A t \in resourceTypes : fetchFuncs[t].resources.items \subseteq fret.gph.resources
        /\ (fret.err = NilErr) <=> (Failing = {})
        /\ fret.err # NilErr =>
              /\ fret.err.kind = "multi"
              /\ Len(fret.err.errs) = Count(Failing)
              /\ Range(fret.err.errs) = {fetchFuncs[t].err : t \in Failing}

C3_Witness ==
    /\ fret.valid /\ fcall.kind = "Fetch"
    /\ \E t, u \in resourceTypes :
          /\ t # u
          /\ fetchFuncs[t].err # NilErr /\ ~fetchFuncs[t].resources.nil
          /\ fetchFuncs[u].err = NilErr /\ ~fetchFuncs[u].resources.nil
    /\ fret.gph.resources = UNION {ResourcesOf(t) : t \in ResourceTypes}
    /\ fret.err.kind = "multi"

\* the objects payload of the worker of type t: what the fetch function
\* returned, nil when no function is registered
Payload(t) == IF fetchFuncs[t].registered THEN fetchFuncs[t].objects ELSE Nil

\* the map holds, under "<t>_objects", a slot made by Store with the payload;
\* a Get without loader reads (payload, nil) from it
ObjectsStored(t) ==
    LET a == cached[ObjectsKey(t)]
    IN /\ a # NoSlot
       /\ origin[a] = [kind |-> "store", key |-> ObjectsKey(t), val |-> Payload(t)]
       /\ ReadResult(a) = {Payload(t)}
       /\ ReadErr(a) = {Nil}

\* C12: a worker (of Fetch or FetchByType, its type registered or not) has
\* stored its objects payload under "<type>_objects" before it sends its
\* result, whether the fetch failed or not; when Fetch has returned, a Get of
\* "<type>_objects" yields (payload, nil) for every registered type.
C12_ObjectsStored ==
    /\ \A t \in ResourceTypes :
          wpc[t] \in {"send", "sent", "done", "panic"} =>
              ObjectsStored(t) /\ wres[t].Objects = Payload(t)
    /\ \A i \in DOMAIN results.buf :
          /\ ObjectsStored(results.buf[i].ResourceType)
          /\ results.buf[i].Objects = Payload(results.buf[i].ResourceType)
    /\ fpc = "returned" /\ fcall.kind = "Fetch" =>
          \A t \in resourceTypes : ObjectsStored(t)

C12_Witness ==
    /\ fpc = "returned" /\ fcall.kind = "Fetch"
    /\ resourceTypes = ResourceTypes
    /\ \E t \in resourceTypes : fetchFuncs[t].err # NilErr /\ fetchFuncs[t].objects # Nil
    /\ \E t \in resourceTypes : fetchFuncs[t].err = NilErr /\ fetchFuncs[t].objects # Nil

\* C13: in Fetch the results channel is closed only after every dispatched
\* worker has sent and is done: no worker sends on a closed channel, no send
\* finds the buffer full, and when Fetch has returned every worker and the
\* closing goroutine have finished.
C13_CloseAfterSends ==
    fcall.kind = "Fetch" =>
        /\ \A t \in ResourceTypes : wpc[t] # "panic"
        /\ \A t \in ResourceTypes : wpc[t] = "send" => Len(results.buf) < results.cap
        /\ results.closed => \A t \in resourceTypes : wpc[t] = "done"
        /\ fpc = "returned" =>
              /\ clpc = "done"
              /\ wg = 0
              /\ \A t \in resourceTypes : wpc[t] = "done"
              /\ \A t \in ResourceTypes \ resourceTypes : wpc[t] = "none"

C13_Witness ==
    /\ fcall.kind = "Fetch" /\ fpc = "returned"
    /\ resourceTypes = ResourceTypes
    /\ nrecv = 2
    /\ results.closed

\* the workers of Fetch that have sent their result
Sent == {t \in ResourceTypes : wpc[t] \in {"sent", "done"}}

\* what holds of the results channel at every moment of a Fetch
FetchChannelBounded ==
    fcall.kind = "Fetch" =>
        /\ results.cap = Count(resourceTypes)
        /\ Len(results.buf) <= Count(resourceTypes)
        /\ nrecv + Len(results.buf) = Count(Sent)
        /\ \A t \in ResourceTypes :
              wpc[t] = "send" => ~results.closed /\ Len(results.buf) < results.cap
        /\ fpc = "returned" =>
              /\ results.closed
              /\ Len(results.buf) = 0
              /\ Sent = resourceTypes
              /\ nrecv = Count(resourceTypes)

\* C23: Fetch terminates in every interleaving when every fetch function
\* returns, with no resource type registered too: the channel never holds
\* more results than there are registered types, a worker that reaches its
\* send finds room (it does not block), each worker's one result is either
\* in the buffer or consumed, and a Fetch that was called eventually returns,
\* the channel closed and one result per registered type consumed.
C23_FetchTerminates ==
    /\ []FetchChannelBounded
    /\ (fcall.kind = "Fetch") ~> (fcall.kind = "Fetch" /\ fpc = "returned" /\ fret.valid)

\* Fetch has returned after both workers sent before the caller received
\* anything: the buffer took one result per registered type
C23_Witness ==
    /\ fcall.kind = "Fetch" /\ fpc = "returned" /\ fret.valid
    /\ Sent = ResourceTypes
    /\ nrecv = Count(resourceTypes)
    /\ results.cap = 2 /\ Len(results.buf) = 0

\* C8: FetchByType always returns a non-nil graph: unregistered type, empty
\* graph and the 'no fetch func defined' error; failing function, its error;
\* success (nil resources too), nil error and exactly the resources returned.
C8_FetchByType ==
    fret.valid /\ fcall.kind = "FetchByType" =>
        LET t == fcall.type
            fn == fetchFuncs[t]
        IN /\ ~fret.gph.nil
           /\ ~fn.registered =>
                 /\ fret.gph.resources = {}
                 /\ fret.err = ErrorOf("no fetch func defined for resource type '" \o t \o "'")
           /\ fn.registered /\ fn.err # NilErr => fret.err = fn.err
           /\ fn.registered /\ fn.err = NilErr =>
                 /\ fret.err = NilErr
                 /\ fret.gph.resources = fn.resources.items
                 /\ \A r \in fret.gph.resources : r[1] = t

C8_Witness ==
    /\ fret.valid /\ fcall.kind = "FetchByType"
    /\ fetchFuncs[fcall.type].registered
    /\ fetchFuncs[fcall.type].err # NilErr
    /\ ~fret.gph.nil

-----------------------------------------------------------------------------
\* Template compiler: values, nodes, environment

\* ---- ast values: literal, hole, ref, alias, interface ----
Lit(v) == [kind |-> "lit", name |-> Nil, val |-> v]
Hole(n) == [kind |-> "hole", name |-> n, val |-> Nil]
Ref(r) == [kind |-> "ref", name |-> r, val |-> Nil]
Alias(a) == [kind |-> "alias", name |-> a, val |-> Nil]
Iface(v) == [kind |-> "iface", name |-> Nil, val |-> v]

\* WithHoles.GetHoles on a value: the hole, while it is not filled
ValHoles(v) == IF v.kind = "hole" /\ v.val = Nil THEN {v.name} ELSE {}

\* WithRefs.GetRefs on a value
ValRefs(v) == IF v.kind = "ref" THEN {v.name} ELSE {}

\* WithAlias.GetAliases on a value: the alias, while it is not resolved
ValAliases(v) == IF v.kind = "alias" /\ v.val = Nil THEN {v.name} ELSE {}

\* CompositeValue.Value(): the concrete value, nil when there is none yet
ValValue(v) == v.val

\* CompositeValue.String()
ValString(v) ==
    IF v.val # Nil THEN v.val
    ELSE IF v.kind = "hole" THEN "{" \o v.name \o "}"
    ELSE IF v.kind = "ref" THEN "$" \o v.name
    ELSE IF v.kind = "alias" THEN "@" \o v.name
    ELSE Nil

\* WithHoles.ProcessHoles on a value: fill the hole when a filler has its name
ValProcessHoles(v, fills) ==
    IF v.kind = "hole" /\ v.val = Nil /\ v.name \in DOMAIN fills
      THEN [v EXCEPT !.val = fills[v.name]]
      ELSE v

\* ---- ast nodes ----
CommandNode(action, entity, params) ==
    [type |-> "cmd", action |-> action, entity |-> entity, params |-> params, command |-> Nil]
DeclarationNode(ident, expr) == [type |-> "decl", ident |-> ident, expr |-> expr]
ValueNode(v) == [type |-> "value", value |-> v]

\* the empty map
EmptyMap == [k \in {} |-> Nil]

\* union of two maps, the second wins
Merge(f, g) == [k \in DOMAIN f \cup DOMAIN g |-> IF k \in DOMAIN g THEN g[k] ELSE f[k]]

\* a map without some keys
Without(f, ks) == [k \in DOMAIN f \ ks |-> f[k]]

\* CommandNode.Keys()
NodeKeys(n) == DOMAIN n.params

\* extractExpressionNode(st): the expression of a statement
ExprOf(st) == IF st.type = "decl" THEN st.expr ELSE st

\* the statement with its expression replaced (nodes are mutated in place)
WithExpr(st, e) == IF st.type = "decl" THEN [st EXCEPT !.expr = e] ELSE e

\* whether CommandNodesIterator yields a node for this statement
HasCmd(st) == ExprOf(st).type = "cmd"

\* holes of an expression node
NodeHoles(e) ==
    IF e.type = "cmd" THEN UNION {ValHoles(e.params[k]) : k \in DOMAIN e.params}
    ELSE ValHoles(e.value)

\* refs of an expression node
NodeRefs(e) ==
    IF e.type = "cmd" THEN UNION {ValRefs(e.params[k]) : k \in DOMAIN e.params}
    ELSE ValRefs(e.value)

\* unresolved aliases of an expression node
NodeAliases(e) ==
    IF e.type = "cmd" THEN UNION {ValAliases(e.params[k]) : k \in DOMAIN e.params}
    ELSE ValAliases(e.value)

\* WithHoles.ProcessHoles on an expression node: the node with its holes filled
NodeProcessHoles(e, fills) ==
    IF e.type = "cmd"
      THEN [e EXCEPT !.params = [k \in DOMAIN e.params |-> ValProcessHoles(e.params[k], fills)]]
      ELSE [e EXCEPT !.value = ValProcessHoles(e.value, fills)]

\* the (name -> value) pairs ProcessHoles returns: the holes it filled
Processed(e, fills) == [h \in NodeHoles(e) \cap DOMAIN fills |-> fills[h]]

\* WithRefs.ReplaceRef(ident, value) on an expression node
NodeReplaceRef(e, ident, value) ==
    IF e.type = "cmd"
      THEN [e EXCEPT !.params = [k \in DOMAIN e.params |->
                IF ValRefs(e.params[k]) = {ident} THEN value ELSE e.params[k]]]
      ELSE IF ValRefs(e.value) = {ident} THEN [e EXCEPT !.value = value] ELSE e

\* ValueNode.IsResolved(): no open hole
IsResolved(e) == ValHoles(e.value) = {}

\* ---- params rules (template/params) ----
Key(k) == [op |-> "key", keys |-> {k}, rules |-> <<>>]
Opt(ks) == [op |-> "opt", keys |-> ks, rules |-> <<>>]
AllOf(rs) == [op |-> "allOf", keys |-> {}, rules |-> rs]
OneOf(rs) == [op |-> "oneOf", keys |-> {}, rules |-> rs]
AtLeastOneOf(rs) == [op |-> "atLeastOneOf", keys |-> {}, rules |-> rs]

\* the keys a rule knows
RECURSIVE RuleKeys(_)
RuleKeys(r) ==
    IF r.op \in {"key", "opt"} THEN r.keys
    ELSE UNION {RuleKeys(r.rules[i]) : i \in DOMAIN r.rules}

\* whether a key set satisfies a rule
RECURSIVE RuleHolds(_, _)
RuleHolds(r, keys) ==
    CASE r.op = "key" -> r.keys \subseteq keys
      [] r.op = "opt" -> TRUE
      [] r.op = "allOf" -> \A i \in DOMAIN r.rules : RuleHolds(r.rules[i], keys)
      [] r.op = "oneOf" -> Cardinality({i \in DOMAIN r.rules : RuleHolds(r.rules[i], keys)}) = 1
      [] r.op = "atLeastOneOf" -> \E i \in DOMAIN r.rules : RuleHolds(r.rules[i], keys)

\* Rule.Missing(keys): the required keys that are absent
RECURSIVE RuleMissing(_, _)
RuleMissing(r, keys) ==
    CASE r.op = "key" -> r.keys \ keys
      [] r.op = "opt" -> {}
      [] r.op = "allOf" -> UNION {RuleMissing(r.rules[i], keys) : i \in DOMAIN r.rules}
      [] r.op \in {"oneOf", "atLeastOneOf"} ->
            IF \E i \in DOMAIN r.rules : RuleHolds(r.rules[i], keys) THEN {}
            ELSE IF Len(r.rules) = 0 THEN {}
            ELSE RuleMissing(r.rules[1], keys)

\* params.Validate(rule, keys): nil, or the error of the rule
RuleValidate(r, keys) ==
    IF ~(keys \subseteq RuleKeys(r)) THEN "unexpected param key(s)"
    ELSE IF ~RuleHolds(r, keys) THEN "missing required params"
    ELSE Nil

\* ---- commands known to the environments ----
CmdKeys == {"createinstance", "taginstance"}

\* the registered command of a key and its capabilities:
\* ExtractResult (er), Params rule, ConvertParams (conv), ValidateCommand (valid)
Command(key) ==
    IF key = "createinstance"
      THEN [key |-> key, er |-> TRUE, rule |-> AllOf(<<Key("type"), Opt({"name"})>>),
            conv |-> TRUE, valid |-> TRUE]
    ELSE IF key = "deleteinstance"
      THEN [key |-> key, er |-> FALSE, rule |-> OneOf(<<Key("name"), Key("type")>>),
            conv |-> FALSE, valid |-> FALSE]
      ELSE [key |-> key, er |-> FALSE, rule |-> AllOf(<<Key("name")>>),
            conv |-> FALSE, valid |-> TRUE]

\* fmt.Sprintf("%s%s", node.Action, node.Entity)
CmdKey(n) == n.action \o n.entity

\* the nil command
NoCommand == [key |-> Nil, er |-> FALSE, rule |-> AllOf(<<>>), conv |-> FALSE, valid |-> FALSE]

\* cenv.LookupCommandFunc()(key): the command, or nil
Lookup(env, key) == IF key \in env.registered THEN Command(key) ELSE NoCommand

\* cmdErr(node, msg): "<action> <entity>: <msg>"
cmdErr(n, msg) == n.action \o " " \o n.entity \o ": " \o msg

\* what a pass returns
PassResult(t, e, err) == [tpl |-> t, env |-> e, err |-> err]

\* the smallest element of a non-empty set of numbers
Min(S) == CHOOSE x \in S : \A y \in S : x <= y

\* visitCommandNodesE(fn): fn is applied to the command nodes in statement
\* order and mutates them in place; the visit stops at the first error.
\* res[i] is what fn makes of the command node of statement i.
VisitCommandNodesE(stmts, res) ==
    LET bad == {i \in DOMAIN stmts : HasCmd(stmts[i]) /\ res[i].err # Nil}
        stop == IF bad = {} THEN Len(stmts) ELSE Min(bad)
    IN [stmts |-> [i \in DOMAIN stmts |->
                     IF HasCmd(stmts[i]) /\ i <= stop
                       THEN WithExpr(stmts[i], res[i].node) ELSE stmts[i]],
        err |-> IF bad = {} THEN Nil ELSE res[stop].err]

-----------------------------------------------------------------------------
\* Template compiler: the passes.  A pass maps (statements, env) to
\* PassResult; ord is the order in which this run iterates over parameter
\* maps (a Go map iteration order).

\* the keys of a map in iteration order ord
KeysInOrder(dom, ord) == SelectSeq(ord, LAMBDA k : k \in dom)

\* the concatenation of a sequence of sequences
RECURSIVE Flatten(_)
Flatten(ss) == IF Len(ss) = 0 THEN <<>> ELSE Head(ss) \o Flatten(Tail(ss))

\* "[a b c]": fmt %v of a []string
RECURSIVE JoinWith(_, _)
JoinWith(ss, sep) ==
    IF Len(ss) = 0 THEN ""
    ELSE IF Len(ss) = 1 THEN ss[1]
    ELSE ss[1] \o sep \o JoinWith(Tail(ss), sep)

FmtList(ss) == "[" \o JoinWith(ss, " ") \o "]"

\* a nil function value is called, or a nil interface is type-asserted
Panic == "panic"

\* ---- resolveMeta ----
\* cenv.LookupMetaCommandFunc()(action, entity, keys): a handler, or nil
LookupMeta(env, n) ==
    IF env.meta \in {"resolves", "fails"} /\ CmdKey(n) = "taginstance" THEN env.meta ELSE Nil

\* the sub-template a meta handler resolves to
MetaResolved ==
    << CommandNode("create", "instance", [k \in {"type"} |-> Lit("m1")]),
       CommandNode("create", "instance", [k \in {"type"} |-> Lit("m2")]) >>

\* index of the statement whose Node is the command node of statement i:
\* none (-1) when the command node is the expression of a declaration
NodeIndex(stmts, i) == IF stmts[i].type = "cmd" THEN i ELSE -1

\* Template.ReplaceNodeByTemplate: splice the statements of the sub-template
\* where the node is; the statements are left alone if the node is not found
ReplaceNodeByTemplate(stmts, nodeIndex, sub) ==
    IF nodeIndex = -1 THEN stmts
    ELSE SubSeq(stmts, 1, nodeIndex - 1) \o sub \o SubSeq(stmts, nodeIndex + 1, Len(stmts))

\* the loop of resolveMetaPass over the command nodes of statements i..1
\* of the snapshot taken by CommandNodesIterator; each node is found by
\* identity, at its index shifted by the statements spliced in before it
RECURSIVE ResolveMetaFrom(_, _, _)
ResolveMetaFrom(stmts, env, i) ==
    IF i = 0 THEN stmts
    ELSE LET rest == ResolveMetaFrom(stmts, env, i - 1)
             shift == Len(rest) - Len(stmts)
         IN IF HasCmd(stmts[i]) /\ LookupMeta(env, ExprOf(stmts[i])) # Nil
              THEN ReplaceNodeByTemplate(rest,
                        IF NodeIndex(stmts, i) = -1 THEN -1 ELSE i + shift, MetaResolved)
              ELSE rest

resolveMetaPass(stmts, env, ord) ==
    IF env.meta = Nil THEN PassResult(stmts, env, Nil)
    ELSE LET metas == {i \in DOMAIN stmts :
                          HasCmd(stmts[i]) /\ LookupMeta(env, ExprOf(stmts[i])) # Nil}
         IN IF env.meta = "fails" /\ metas # {}
              THEN PassResult(stmts, env,
                      cmdErr(ExprOf(stmts[Min(metas)]), "resolve meta command: cannot resolve"))
              ELSE PassResult(ResolveMetaFrom(stmts, env, Len(stmts)), env, Nil)

\* ---- verifyCommandsDefined ----
verifyCommandsDefinedPass(stmts, env, ord) ==
    IF ~env.lookupDefined THEN PassResult(stmts, env, "command lookuper is undefined")
    ELSE LET bad == {i \in DOMAIN stmts :
                        HasCmd(stmts[i]) /\ Lookup(env, CmdKey(ExprOf(stmts[i]))) = NoCommand}
         IN IF bad = {} THEN PassResult(stmts, env, Nil)
            ELSE PassResult(stmts, env,
                    "cannot find command for '" \o CmdKey(ExprOf(stmts[Min(bad)])) \o "'")

\* ---- failOnDeclarationWithNoResult ----
\* the closure applied to one declaration
failOnDeclarationWithNoResult(env, decl) ==
    IF decl.expr.type # "cmd" THEN Nil
    ELSE IF ~env.lookupDefined THEN Panic
    ELSE IF Lookup(env, CmdKey(decl.expr)) = NoCommand
      THEN "validate: cannot find command for '" \o CmdKey(decl.expr) \o "'"
    ELSE IF ~Lookup(env, CmdKey(decl.expr)).er
      THEN cmdErr(decl.expr, "command does not return a result, cannot assign to a variable")
    ELSE Nil

failOnDeclarationWithNoResultPass(stmts, env, ord) ==
    LET bad == {i \in DOMAIN stmts :
                   stmts[i].type = "decl" /\ failOnDeclarationWithNoResult(env, stmts[i]) # Nil}
    IN IF bad = {} THEN PassResult(stmts, env, Nil)
       ELSE PassResult(stmts, env, failOnDeclarationWithNoResult(env, stmts[Min(bad)]))

\* ---- processAndValidateParams ----
\* a closure that validates the keys of the node before it adds the holes
validateThenNormalize(env, n) ==
    IF ~env.lookupDefined THEN [node |-> n, err |-> Panic]
    ELSE IF Lookup(env, CmdKey(n)) = NoCommand
      THEN [node |-> n, err |-> "process params: cannot find command for '" \o CmdKey(n) \o "'"]
    ELSE LET rule == Lookup(env, CmdKey(n)).rule
             missing == RuleMissing(rule, NodeKeys(n))
             holes == [e \in missing |-> Hole(n.entity \o "." \o e)]
             nn == [n EXCEPT !.params = Merge(n.params, holes)]
             verr == RuleValidate(rule, NodeKeys(n))
         IN [node |-> nn, err |-> IF verr = Nil THEN Nil ELSE cmdErr(nn, verr)]

\* the closure applied to one command node: the node as mutated, and the error
normalizeMissingRequiredParamsAsHoleAndValidate(env, n) ==
    IF ~env.lookupDefined THEN [node |-> n, err |-> Panic]
    ELSE IF Lookup(env, CmdKey(n)) = NoCommand
      THEN [node |-> n, err |-> "process params: cannot find command for '" \o CmdKey(n) \o "'"]
    ELSE LET rule == Lookup(env, CmdKey(n)).rule
             missing == RuleMissing(rule, NodeKeys(n))
             holes == [e \in missing |-> Hole(n.entity \o "." \o e)]
             nn == [n EXCEPT !.params = Merge(n.params, holes)]
             verr == RuleValidate(rule, NodeKeys(nn))
         IN [node |-> nn, err |-> IF verr = Nil THEN Nil ELSE cmdErr(nn, verr)]

processAndValidateParamsPass(stmts, env, ord) ==
    LET res == [i \in DOMAIN stmts |->
                  IF HasCmd(stmts[i])
                    THEN normalizeMissingRequiredParamsAsHoleAndValidate(env, ExprOf(stmts[i]))
                    ELSE [node |-> stmts[i], err |-> Nil]]
        v == VisitCommandNodesE(stmts, res)
    IN PassResult(v.stmts, env, v.err)

\* ---- checkInvalidReferenceDeclarations ----
\* GetRefs of an expression node, in iteration order
RefsInOrder(e, ord) ==
    IF e.type = "cmd"
      THEN LET ks == KeysInOrder(DOMAIN e.params, ord)
           IN Flatten([j \in DOMAIN ks |->
                         IF e.params[ks[j]].kind = "ref" THEN <<e.params[ks[j]].name>> ELSE <<>>])
      ELSE IF e.value.kind = "ref" THEN <<e.value.name>> ELSE <<>>

\* the closure 'each': the error of the first ref that is not known
EachRef(refs, knownRefs) ==
    LET unknown == SelectSeq(refs, LAMBDA r : r \notin knownRefs)
    IN IF Len(unknown) = 0 THEN Nil
       ELSE "using reference '$" \o unknown[1] \o "' but '" \o unknown[1]
                \o "' is undefined in template\n"

\* a scan that registers the identifier of a declaration before it checks
\* the refs of its expression
RECURSIVE CheckRefsDeclFirst(_, _, _, _)
CheckRefsDeclFirst(stmts, i, knownRefs, ord) ==
    IF i > Len(stmts) THEN Nil
    ELSE LET st == stmts[i]
             known1 == IF st.type = "decl" THEN knownRefs \cup {st.ident} ELSE knownRefs
             e1 == EachRef(RefsInOrder(ExprOf(st), ord), known1)
         IN IF e1 # Nil THEN e1
            ELSE IF st.type = "decl" /\ st.ident \in knownRefs
                   THEN "using reference '$" \o st.ident \o "' but '" \o st.ident
                            \o "' has already been assigned in template\n"
                   ELSE CheckRefsDeclFirst(stmts, i + 1, known1, ord)

\* the loop over tpl.Statements from statement i on, with the refs known so far
RECURSIVE CheckRefsFrom(_, _, _, _)
CheckRefsFrom(stmts, i, knownRefs, ord) ==
    IF i > Len(stmts) THEN Nil
    ELSE LET st == stmts[i]
             e1 == EachRef(RefsInOrder(ExprOf(st), ord), knownRefs)
         IN IF e1 # Nil THEN e1
            ELSE IF st.type = "decl"
              THEN IF st.ident \in knownRefs
                     THEN "using reference '$" \o st.ident \o "' but '" \o st.ident
                              \o "' has already been assigned in template\n"
                     ELSE CheckRefsFrom(stmts, i + 1, knownRefs \cup {st.ident}, ord)
              ELSE CheckRefsFrom(stmts, i + 1, knownRefs, ord)

checkInvalidReferenceDeclarationsPass(stmts, env, ord) ==
    PassResult(stmts, env, CheckRefsFrom(stmts, 1, {}, ord))

\* ---- resolveHoles ----
\* tpl.visitHoles(fn) with fn = ProcessHoles(fills): every expression node
VisitProcessHoles(stmts, fills) ==
    [i \in DOMAIN stmts |-> WithExpr(stmts[i], NodeProcessHoles(ExprOf(stmts[i]), fills))]

\* the open holes of a template
TemplateHoles(stmts) == UNION {NodeHoles(ExprOf(stmts[i])) : i \in DOMAIN stmts}

\* addToProcessedFillers over all visited nodes
AddToProcessedFillers(env, stmts, fills) ==
    [env EXCEPT !.processedFillers =
        Merge(@, [h \in TemplateHoles(stmts) \cap DOMAIN fills |-> fills[h]])]

resolveHolesPass(stmts, env, ord) ==
    PassResult(VisitProcessHoles(stmts, env.fillers),
               AddToProcessedFillers(env, stmts, env.fillers), Nil)

\* ---- resolveMissingHoles ----
\* every hole name of the model, in ascending lexicographic order
HoleNamesSorted == <<"h1", "h2", "instance.name", "instance.type">>

\* the hole names in descending order
SortStringsDescending(S) ==
    LET up == SelectSeq(HoleNamesSorted, LAMBDA h : h \in S)
    IN [i \in DOMAIN up |-> up[Len(up) + 1 - i]]

\* sort.Strings on a set of hole names
SortStrings(S) == SelectSeq(HoleNamesSorted, LAMBDA h : h \in S)

\* cenv.MissingHolesFunc()(k, candidates): the value the callback supplies
MissingHolesValue(k) == "ask_" \o k

resolveMissingHolesPass(stmts, env, ord) ==
    LET sortedHoles == SortStrings(TemplateHoles(stmts))
        fillers == IF env.missingHolesFunc
                     THEN [h \in TemplateHoles(stmts) |-> MissingHolesValue(h)]
                     ELSE EmptyMap
        asked == IF env.missingHolesFunc THEN sortedHoles ELSE <<>>
        env1 == [env EXCEPT !.asked = @ \o asked]
    IN PassResult(VisitProcessHoles(stmts, fillers),
                  AddToProcessedFillers(env1, stmts, fillers), Nil)

\* ---- resolveAlias ----
\* cenv.AliasFunc()(entity, key, alias): the resolved id, "" when unknown
AliasFunc(env, alias) == IF alias \in env.aliases THEN "id_" \o alias ELSE ""

\* ResolveAlias on a value with the closure of resolvAliasFunc
ValResolveAlias(v, env) ==
    IF ValAliases(v) = {} \/ ~env.aliasDefined \/ AliasFunc(env, v.name) = "" THEN v
    ELSE [v EXCEPT !.val = AliasFunc(env, v.name)]

\* a closure that does not note the aliases resolved to ""
ValEmptyResolvNone(v, env) == <<>>

\* the aliases one value appends to emptyResolv
ValEmptyResolv(v, env) ==
    IF ValAliases(v) # {} /\ env.aliasDefined /\ AliasFunc(env, v.name) = ""
      THEN <<v.name>> ELSE <<>>

NodeResolveAlias(e, env) ==
    IF e.type = "cmd"
      THEN [e EXCEPT !.params = [k \in DOMAIN e.params |-> ValResolveAlias(e.params[k], env)]]
      ELSE [e EXCEPT !.value = ValResolveAlias(e.value, env)]

NodeEmptyResolv(e, env, ord) ==
    IF e.type = "cmd"
      THEN LET ks == KeysInOrder(DOMAIN e.params, ord)
           IN Flatten([j \in DOMAIN ks |-> ValEmptyResolv(e.params[ks[j]], env)])
      ELSE ValEmptyResolv(e.value, env)

\* fmt %q of a []string
FmtQuoted(ss) == "[" \o JoinWith([i \in DOMAIN ss |-> "\"" \o ss[i] \o "\""], " ") \o "]"

resolveAliasPass(stmts, env, ord) ==
    LET emptyResolv == Flatten([i \in DOMAIN stmts |-> NodeEmptyResolv(ExprOf(stmts[i]), env, ord)])
        out == [i \in DOMAIN stmts |-> WithExpr(stmts[i], NodeResolveAlias(ExprOf(stmts[i]), env))]
    IN IF Len(emptyResolv) > 0
         THEN PassResult(out, env, "cannot resolve aliases: " \o FmtQuoted(emptyResolv)
                 \o ". Maybe you need to update your local model with awless sync ?")
         ELSE PassResult(out, env, Nil)

\* ---- inlineVariableValue ----
\* the inner loop: ReplaceRef(ident, value) on the expressions of statements j > i
ReplaceRefAfter(stmts, i, ident, value) ==
    [j \in DOMAIN stmts |->
        IF j > i THEN WithExpr(stmts[j], NodeReplaceRef(ExprOf(stmts[j]), ident, value))
        ELSE stmts[j]]

\* a loop that replaces the refs to resolved value declarations only
RECURSIVE InlineResolvedOnly(_, _, _, _)
InlineResolvedOnly(stmts, i, out, env) ==
    IF i > Len(stmts) THEN PassResult(out, env, Nil)
    ELSE LET st == stmts[i]
         IN IF st.type = "decl" /\ st.expr.type = "value"
              THEN LET val == ValValue(st.expr.value)
                       env1 == IF val # Nil
                                 THEN [env EXCEPT !.resolvedVariables =
                                          Merge(@, [x \in {st.ident} |-> val])]
                                 ELSE env
                       stmts1 == ReplaceRefAfter(stmts, i, st.ident, st.expr.value)
                   IN IF IsResolved(st.expr)
                        THEN InlineResolvedOnly(stmts1, i + 1, out, env1)
                        ELSE InlineResolvedOnly(stmts, i + 1, Append(out, st), env1)
              ELSE InlineResolvedOnly(stmts, i + 1, Append(out, st), env)

\* the outer loop from statement i on: stmts are tpl.Statements as mutated so
\* far, out the statements of newTpl, env the env with its resolved variables
RECURSIVE InlineFrom(_, _, _, _)
InlineFrom(stmts, i, out, env) ==
    IF i > Len(stmts) THEN PassResult(out, env, Nil)
    ELSE LET st == stmts[i]
         IN IF st.type = "decl" /\ st.expr.type = "value"
              THEN LET val == ValValue(st.expr.value)
                       env1 == IF val # Nil
                                 THEN [env EXCEPT !.resolvedVariables =
                                          Merge(@, [x \in {st.ident} |-> val])]
                                 ELSE env
                       stmts1 == ReplaceRefAfter(stmts, i, st.ident, st.expr.value)
                   IN IF IsResolved(st.expr)
                        THEN InlineFrom(stmts1, i + 1, out, env1)
                        ELSE InlineFrom(stmts1, i + 1, Append(out, st), env1)
              ELSE InlineFrom(stmts, i + 1, Append(out, st), env)

inlineVariableValuePass(stmts, env, ord) == InlineFrom(stmts, 1, <<>>, env)

\* ---- failOnUnresolvedHoles ----
\* a pass that lets open holes through
failOnUnresolvedHolesPassLax(stmts, env, ord) == PassResult(stmts, env, Nil)

failOnUnresolvedHolesPass(stmts, env, ord) ==
    LET unresolved == SortStrings(TemplateHoles(stmts))
    IN IF Len(unresolved) > 0
         THEN PassResult(stmts, env, "template contains unresolved holes: " \o FmtList(unresolved))
         ELSE PassResult(stmts, env, Nil)

\* ---- failOnUnresolvedAlias ----
\* GetAliases of an expression node, in iteration order
AliasesInOrder(e, ord) ==
    IF e.type = "cmd"
      THEN LET ks == KeysInOrder(DOMAIN e.params, ord)
           IN Flatten([j \in DOMAIN ks |->
                         IF ValAliases(e.params[ks[j]]) # {} THEN <<e.params[ks[j]].name>> ELSE <<>>])
      ELSE IF ValAliases(e.value) # {} THEN <<e.value.name>> ELSE <<>>

failOnUnresolvedAliasPass(stmts, env, ord) ==
    LET unresolved == Flatten([i \in DOMAIN stmts |-> AliasesInOrder(ExprOf(stmts[i]), ord)])
    IN IF Len(unresolved) > 0
         THEN PassResult(stmts, env, "template contains unresolved alias: " \o FmtList(unresolved))
         ELSE PassResult(stmts, env, Nil)

\* ---- convertParams ----
\* CommandNode.ToDriverParams(): the concrete value of every parameter
ToDriverParams(n) == [k \in DOMAIN n.params |-> ValValue(n.params[k])]

\* ConvertParams() of the create instance command: the keys it consumes
ConvertKeys == {"name"}

\* and its conversion function: fails on a value that is missing
ConvFunc(values) ==
    IF \E k \in DOMAIN values : values[k] = Nil
      THEN [converted |-> EmptyMap, err |-> "cannot convert nil value"]
      ELSE [converted |-> [k \in {"nametag" : x \in DOMAIN values} |-> "tag_" \o values["name"]],
            err |-> Nil]

\* the closure applied to one command node
convert(env, n) ==
    IF ~env.lookupDefined THEN [node |-> n, err |-> Panic]
    ELSE IF Lookup(env, CmdKey(n)) = NoCommand
      THEN [node |-> n, err |-> "convert: cannot find command for '" \o CmdKey(n) \o "'"]
    ELSE IF ~Lookup(env, CmdKey(n)).conv THEN [node |-> n, err |-> Nil]
    ELSE LET params == ToDriverParams(n)
             values == [k \in ConvertKeys \cap DOMAIN params |-> params[k]]
             c == ConvFunc(values)
         IN IF c.err # Nil THEN [node |-> n, err |-> cmdErr(n, c.err)]
            ELSE [node |-> [n EXCEPT !.params =
                              Merge(Without(n.params, ConvertKeys),
                                    [k \in DOMAIN c.converted |-> Iface(c.converted[k])])],
                  err |-> Nil]

convertParamsPass(stmts, env, ord) ==
    LET res == [i \in DOMAIN stmts |->
                  IF HasCmd(stmts[i]) THEN convert(env, ExprOf(stmts[i]))
                  ELSE [node |-> stmts[i], err |-> Nil]]
        v == VisitCommandNodesE(stmts, res)
    IN PassResult(v.stmts, env, v.err)

\* ---- validateCommands ----
\* ValidateCommand(params, refsKey) of a command: its validation errors
ValidateCommand(env, key) == IF key \in env.invalid THEN <<"invalid " \o key>> ELSE <<>>

\* the closure applied to one command node: the errors it appends to errs
collectValidationErrs(env, n) ==
    IF ~env.lookupDefined THEN [errs |-> <<>>, err |-> Panic]
    ELSE IF Lookup(env, CmdKey(n)) = NoCommand
      THEN [errs |-> <<>>, err |-> "validate: cannot find command for '" \o CmdKey(n) \o "'"]
    ELSE IF ~Lookup(env, CmdKey(n)).valid THEN [errs |-> <<>>, err |-> Nil]
    ELSE LET es == ValidateCommand(env, CmdKey(n))
         IN [errs |-> [i \in DOMAIN es |-> cmdErr(n, es[i])], err |-> Nil]

\* a pass that fails with the first validation error alone
validateCommandsPassFirst(stmts, env, ord) ==
    LET res == [i \in DOMAIN stmts |->
                  IF HasCmd(stmts[i]) THEN collectValidationErrs(env, ExprOf(stmts[i]))
                  ELSE [errs |-> <<>>, err |-> Nil]]
        bad == {i \in DOMAIN stmts : res[i].err # Nil}
        errs == Flatten([i \in DOMAIN stmts |-> res[i].errs])
    IN IF bad # {} THEN PassResult(stmts, env, res[Min(bad)].err)
       ELSE IF Len(errs) = 0 THEN PassResult(stmts, env, Nil)
       ELSE PassResult(stmts, env, "validation error: " \o errs[1])

validateCommandsPass(stmts, env, ord) ==
    LET res == [i \in DOMAIN stmts |->
                  IF HasCmd(stmts[i]) THEN collectValidationErrs(env, ExprOf(stmts[i]))
                  ELSE [errs |-> <<>>, err |-> Nil]]
        bad == {i \in DOMAIN stmts : res[i].err # Nil}
        errs == Flatten([i \in DOMAIN stmts |-> res[i].errs])
    IN IF bad # {} THEN PassResult(stmts, env, res[Min(bad)].err)
       ELSE IF Len(errs) = 0 THEN PassResult(stmts, env, Nil)
       ELSE IF Len(errs) = 1 THEN PassResult(stmts, env, "validation error: " \o errs[1])
       ELSE PassResult(stmts, env, "validation errors:\n\t- " \o JoinWith(errs, "\n\t- "))

\* ---- injectCommands ----
\* node.Command = cenv.LookupCommandFunc()(key).(ast.Command): the type
\* assertion on a nil interface panics before the nil test is reached
injectCommandsPass(stmts, env, ord) ==
    LET bad == {i \in DOMAIN stmts :
                   HasCmd(stmts[i]) /\
                   (~env.lookupDefined \/ Lookup(env, CmdKey(ExprOf(stmts[i]))) = NoCommand)}
        stop == IF bad = {} THEN Len(stmts) + 1 ELSE Min(bad)
        out == [i \in DOMAIN stmts |->
                  IF HasCmd(stmts[i]) /\ i < stop
                    THEN WithExpr(stmts[i],
                            [ExprOf(stmts[i]) EXCEPT !.command = CmdKey(ExprOf(stmts[i]))])
                    ELSE stmts[i]]
    IN PassResult(out, env, IF bad = {} THEN Nil ELSE Panic)

-----------------------------------------------------------------------------
\* Template compiler: modes, Compile, multiPass.compile

TestCompileMode ==
    << "resolveMeta", "verifyCommandsDefined", "failOnDeclarationWithNoResult",
       "processAndValidateParams", "checkInvalidReferenceDeclarations",
       "resolveHoles", "resolveMissingHoles", "resolveAlias", "inlineVariableValue" >>

\* a runner mode that converts the parameters before the unresolved checks
NewRunnerCompileModeReordered ==
    TestCompileMode \o
    << "convertParams", "failOnUnresolvedHoles", "failOnUnresolvedAlias",
       "validateCommands", "injectCommands" >>

\* append(TestCompileMode, ...): the literal has no spare capacity, so the
\* result is a new slice
NewRunnerCompileMode ==
    TestCompileMode \o
    << "failOnUnresolvedHoles", "failOnUnresolvedAlias", "convertParams",
       "validateCommands", "injectCommands" >>

\* the compileFunc of a name
ApplyPass(name, stmts, env, ord) ==
    CASE name = "resolveMeta" -> resolveMetaPass(stmts, env, ord)
      [] name = "verifyCommandsDefined" -> verifyCommandsDefinedPass(stmts, env, ord)
      [] name = "failOnDeclarationWithNoResult" -> failOnDeclarationWithNoResultPass(stmts, env, ord)
      [] name = "processAndValidateParams" -> processAndValidateParamsPass(stmts, env, ord)
      [] name = "checkInvalidReferenceDeclarations" ->
            checkInvalidReferenceDeclarationsPass(stmts, env, ord)
      [] name = "resolveHoles" -> resolveHolesPass(stmts, env, ord)
      [] name = "resolveMissingHoles" -> resolveMissingHolesPass(stmts, env, ord)
      [] name = "resolveAlias" -> resolveAliasPass(stmts, env, ord)
      [] name = "inlineVariableValue" -> inlineVariableValuePass(stmts, env, ord)
      [] name = "failOnUnresolvedHoles" -> failOnUnresolvedHolesPass(stmts, env, ord)
      [] name = "failOnUnresolvedAlias" -> failOnUnresolvedAliasPass(stmts, env, ord)
      [] name = "convertParams" -> convertParamsPass(stmts, env, ord)
      [] name = "validateCommands" -> validateCommandsPass(stmts, env, ord)
      [] name = "injectCommands" -> injectCommandsPass(stmts, env, ord)

\* the parameter keys of the templates, and the orders in which a map
\* iteration may yield them (the converted key "nametag" comes last)
ParamKeys == {"name", "type"}

Orders == {<<"name", "type", "nametag">>, <<"type", "name", "nametag">>}

\* Compile(tpl, cenv, mode...): pass = newMultiPass(...); newTpl, newEnv = tpl, cenv
CompileCall ==
    /\ kpc = "idle"
    /\ passes' = IF Len(cin.mode) > 0 THEN cin.mode[1] ELSE NewRunnerCompileMode
    /\ newTpl' = cin.tpl
    /\ newEnv' = cin.env
    /\ kerr' = Nil
    /\ kidx' = 0
    /\ kpc' = "loop"
    /\ UNCHANGED <<cin, ktrace>>
    /\ UNCHANGED <<cacheVars, fetchVars>>

\* a loop that goes on after a pass has failed
CompilePassNoReturn ==
    /\ kpc = "loop"
    /\ kidx < Len(passes)
    /\ \E ord \in Orders :
        \E r \in {ApplyPass(passes[kidx + 1], newTpl, newEnv, ord)} :
             /\ newTpl' = r.tpl
             /\ newEnv' = r.env
             /\ kerr' = r.err
             /\ kpc' = "loop"
             /\ ktrace' = Append(ktrace,
                   [pass |-> passes[kidx + 1], tplIn |-> newTpl, envIn |-> newEnv,
                    tplOut |-> r.tpl, envOut |-> r.env, err |-> r.err])
    /\ kidx' = kidx + 1
    /\ UNCHANGED <<cin, passes>>
    /\ UNCHANGED <<cacheVars, fetchVars>>

\* one iteration of the loop of compile:
\* newTpl, newEnv, err = pass(newTpl, newEnv); if err != nil { return }
CompilePass ==
    /\ kpc = "loop"
    /\ kidx < Len(passes)
    /\ \E ord \in Orders :
        \E r \in {ApplyPass(passes[kidx + 1], newTpl, newEnv, ord)} :
             /\ newTpl' = r.tpl
             /\ newEnv' = r.env
             /\ kerr' = r.err
             /\ kpc' = IF r.err = Panic THEN "panicked"
                       ELSE IF r.err # Nil THEN "returned" ELSE "loop"
             /\ ktrace' = Append(ktrace,
                   [pass |-> passes[kidx + 1], tplIn |-> newTpl, envIn |-> newEnv,
                    tplOut |-> r.tpl, envOut |-> r.env, err |-> r.err])
    /\ kidx' = kidx + 1
    /\ UNCHANGED <<cin, passes>>
    /\ UNCHANGED <<cacheVars, fetchVars>>

\* the loop is over: return
CompileReturn ==
    /\ kpc = "loop"
    /\ kidx = Len(passes)
    /\ kpc' = "returned"
    /\ UNCHANGED <<cin, passes, kidx, newTpl, newEnv, kerr, ktrace>>
    /\ UNCHANGED <<cacheVars, fetchVars>>

CompileNext ==
    \/ CompileCall
    \/ CompilePass
    \/ CompileReturn

\* ---- the inputs of the compiler specification ----
MaxStmts == 3

\* sequences of at most n elements of S
SeqsUpTo(S, n) == UNION {[1..m -> S] : m \in 0..n}

\* a parameter map of one or two entries
P1(k, v) == [x \in {k} |-> v]
P2(k1, v1, k2, v2) == [x \in {k1, k2} |-> IF x = k1 THEN v1 ELSE v2]

\* an environment: env.Compiling
Env(lookupDefined, registered, meta, fillers, missingHolesFunc, aliasDefined, aliases, invalid) ==
    [lookupDefined |-> lookupDefined, registered |-> registered, meta |-> meta,
     fillers |-> fillers, missingHolesFunc |-> missingHolesFunc,
     aliasDefined |-> aliasDefined, aliases |-> aliases, invalid |-> invalid,
     processedFillers |-> EmptyMap, resolvedVariables |-> EmptyMap, asked |-> <<>>]

\* statements the templates are made of
Statements ==
    { CommandNode("create", "instance", P1("type", Lit("t2"))),
      CommandNode("create", "instance", P1("name", Hole("h1"))),
      CommandNode("tag", "instance", P1("name", Ref("x"))),
      CommandNode("create", "instance", P2("type", Alias("al"), "name", Ref("y"))),
      DeclarationNode("x", CommandNode("create", "instance", P1("type", Lit("t2")))),
      DeclarationNode("x", ValueNode(Lit("v"))),
      DeclarationNode("y", ValueNode(Ref("x"))),
      DeclarationNode("y", ValueNode(Hole("h1"))) }

Envs ==
    { Env(TRUE, CmdKeys, Nil, P1("h1", "f1"), TRUE, TRUE, {"al"}, {}),
      Env(TRUE, CmdKeys, Nil, EmptyMap, FALSE, FALSE, {}, {}),
      Env(TRUE, {"createinstance"}, Nil, EmptyMap, TRUE, TRUE, {}, {}),
      Env(TRUE, CmdKeys, "resolves", EmptyMap, TRUE, TRUE, {"al"}, CmdKeys),
      Env(FALSE, {}, Nil, EmptyMap, TRUE, TRUE, {"al"}, {}) }

Modes == {<<>>, <<TestCompileMode>>}

InitCompile ==
    /\ CacheInit
    /\ FetchIdle
    /\ cin \in [tpl : SeqsUpTo(Statements, MaxStmts), env : Envs, mode : Modes]
    /\ passes = <<>>
    /\ kpc = "idle"
    /\ kidx = 0
    /\ newTpl = <<>>
    /\ newEnv = Nil
    /\ kerr = Nil
    /\ ktrace = <<>>

SpecCompile == InitCompile /\ [][CompileNext]_vars

\* ---- inputs for the reference check run on its own ----
RefStatements ==
    { CommandNode("tag", "instance", P1("name", Ref("x"))),
      CommandNode("create", "instance", P2("type", Ref("x"), "name", Ref("y"))),
      DeclarationNode("x", CommandNode("create", "instance", P1("type", Lit("t2")))),
      DeclarationNode("x", ValueNode(Lit("v"))),
      DeclarationNode("y", ValueNode(Ref("x"))),
      DeclarationNode("y", CommandNode("create", "instance", P1("type", Ref("y")))),
      DeclarationNode("x", CommandNode("create", "instance", P1("type", Ref("y")))) }

InitRefs ==
    /\ CacheInit
    /\ FetchIdle
    /\ cin \in [tpl : SeqsUpTo(RefStatements, MaxStmts),
                env : {Env(TRUE, CmdKeys, Nil, EmptyMap, FALSE, FALSE, {}, {})},
                mode : {<< <<"checkInvalidReferenceDeclarations">> >>}]
    /\ passes = <<>>
    /\ kpc = "idle"
    /\ kidx = 0
    /\ newTpl = <<>>
    /\ newEnv = Nil
    /\ kerr = Nil
    /\ ktrace = <<>>

SpecRefs == InitRefs /\ [][CompileNext]_vars

\* ---- inputs for the passes run on their own, as one-pass modes ----
PassStatements ==
    { CommandNode("create", "instance", P2("type", Alias("al"), "name", Alias("al2"))),
      CommandNode("create", "instance", P1("name", Hole("h2"))),
      CommandNode("tag", "instance", P1("name", Ref("y"))),
      CommandNode("delete", "instance", P2("name", Lit("n"), "type", Lit("t2"))),
      DeclarationNode("x", ValueNode(Lit("v"))),
      DeclarationNode("y", ValueNode(Ref("x"))),
      DeclarationNode("y", ValueNode(Hole("h1"))),
      DeclarationNode("x", CommandNode("tag", "instance", P1("name", Lit("n")))) }

PassCmdKeys == {"createinstance", "taginstance", "deleteinstance"}

PassEnvs ==
    { Env(TRUE, PassCmdKeys, "resolves", EmptyMap, TRUE, TRUE, {"al"}, {"createinstance", "taginstance"}),
      Env(TRUE, {"createinstance"}, Nil, P1("h1", "f1"), FALSE, FALSE, {}, {}),
      Env(TRUE, PassCmdKeys, Nil, EmptyMap, TRUE, TRUE, {}, {"taginstance"}),
      Env(TRUE, PassCmdKeys, Nil, EmptyMap, TRUE, TRUE, {"al", "al2"}, {}) }

PassModes ==
    { << <<p>> >> : p \in {"resolveMeta", "processAndValidateParams", "resolveMissingHoles",
                           "resolveAlias", "inlineVariableValue", "failOnUnresolvedAlias",
                           "validateCommands", "injectCommands"} }

InitPass ==
    /\ CacheInit
    /\ FetchIdle
    /\ cin \in [tpl : SeqsUpTo(PassStatements, MaxStmts), env : PassEnvs, mode : PassModes]
    /\ passes = <<>>
    /\ kpc = "idle"
    /\ kidx = 0
    /\ newTpl = <<>>
    /\ newEnv = Nil
    /\ kerr = Nil
    /\ ktrace = <<>>

SpecPass == InitPass /\ [][CompileNext]_vars

-----------------------------------------------------------------------------
\* Properties of the compiler (SpecCompile, SpecRefs, SpecPass)

\* the names of the passes run so far
TracePasses == [i \in DOMAIN ktrace |-> ktrace[i].pass]

IsPrefix(a, b) == Len(a) <= Len(b) /\ SubSeq(b, 1, Len(a)) = a

\* Compile has returned without error
Compiled == kpc = "returned" /\ kerr = Nil

\* the refs of statement i of a template that no earlier statement declares
Undeclared(stmts, i) ==
    {r \in NodeRefs(ExprOf(stmts[i])) :
        ~\E j \in 1..(i - 1) : stmts[j].type = "decl" /\ stmts[j].ident = r}

\* statement i declares an identifier that an earlier statement declares
Redeclares(stmts, i) ==
    /\ stmts[i].type = "decl"
    /\ \E j \in 1..(i - 1) : stmts[j].type = "decl" /\ stmts[j].ident = stmts[i].ident

\* C2 as stated: after a runner-mode Compile without error no node carries an
\* unresolved hole, ref or alias.
C2_NoUnresolvedAtAll ==
    Compiled /\ Len(cin.mode) = 0 =>
        \A i \in DOMAIN newTpl :
            /\ NodeHoles(ExprOf(newTpl[i])) = {}
            /\ NodeRefs(ExprOf(newTpl[i])) = {}
            /\ NodeAliases(ExprOf(newTpl[i])) = {}

\* C2 amended: after a runner-mode Compile without error no node carries an
\* unresolved hole or alias, and every ref still carried names a declaration
\* at an earlier statement of the result whose right-hand side is a command.
C2_NoUnresolvedHoleAlias ==
    Compiled /\ Len(cin.mode) = 0 =>
        \A i \in DOMAIN newTpl :
            /\ NodeHoles(ExprOf(newTpl[i])) = {}
            /\ NodeAliases(ExprOf(newTpl[i])) = {}
            /\ \A r \in NodeRefs(ExprOf(newTpl[i])) :
                  \E j \in 1..(i - 1) :
                      /\ newTpl[j].type = "decl"
                      /\ newTpl[j].ident = r
                      /\ newTpl[j].expr.type = "cmd"

C2_Witness ==
    /\ Compiled /\ Len(cin.mode) = 0
    /\ TemplateHoles(cin.tpl) # {}
    /\ \E i \in DOMAIN cin.tpl : cin.tpl[i].type = "decl" /\ cin.tpl[i].expr.type = "value"
    /\ \E i \in DOMAIN newTpl : NodeRefs(ExprOf(newTpl[i])) # {}

\* C4: compile runs the passes in order, each once, on the template and env
\* its predecessor returned; the first pass that returns an error is the last
\* one run and its error is the error returned.
C4_StopsAtFirstError ==
    /\ Len(ktrace) = kidx
    /\ \A i \in DOMAIN ktrace :
          /\ i <= Len(passes) /\ ktrace[i].pass = passes[i]
          /\ ktrace[i].tplIn = (IF i = 1 THEN cin.tpl ELSE ktrace[i - 1].tplOut)
          /\ ktrace[i].envIn = (IF i = 1 THEN cin.env ELSE ktrace[i - 1].envOut)
          /\ ktrace[i].err # Nil => i = Len(ktrace) /\ kpc # "loop"
    /\ kpc = "returned" =>
          /\ kerr = Nil => Len(ktrace) = Len(passes)
          /\ kerr # Nil => Len(ktrace) > 0 /\ kerr = ktrace[Len(ktrace)].err
          /\ Len(ktrace) > 0 =>
                newTpl = ktrace[Len(ktrace)].tplOut /\ newEnv = ktrace[Len(ktrace)].envOut

C4_Witness ==
    /\ kpc = "returned" /\ kerr # Nil
    /\ kidx > 5 /\ kidx < Len(passes)
    /\ ktrace[kidx].tplIn # cin.tpl

\* C5: without a mode Compile runs the nine passes of the test mode followed
\* by failOnUnresolvedHoles, failOnUnresolvedAlias, convertParams,
\* validateCommands, injectCommands; the test mode still is its nine passes.
C5_DefaultIsRunner ==
    LET nine == << "resolveMeta", "verifyCommandsDefined", "failOnDeclarationWithNoResult",
                   "processAndValidateParams", "checkInvalidReferenceDeclarations",
                   "resolveHoles", "resolveMissingHoles", "resolveAlias",
                   "inlineVariableValue" >>
        five == << "failOnUnresolvedHoles", "failOnUnresolvedAlias", "convertParams",
                   "validateCommands", "injectCommands" >>
        expected == IF Len(cin.mode) = 0 THEN nine \o five ELSE nine
    IN /\ cin.mode \in {<<>>, <<TestCompileMode>>}
       /\ kpc # "idle" => passes = expected
       /\ IsPrefix(TracePasses, expected)
       /\ Compiled => TracePasses = expected

C5_Witness ==
    /\ Compiled /\ Len(cin.mode) = 0
    /\ Len(ktrace) = 14
    /\ Len(cin.tpl) > 0

\* C10: checkInvalidReferenceDeclarations succeeds iff the declared
\* identifiers are pairwise distinct and every ref of a statement is declared
\* by an earlier statement; the error is the one of the first offending
\* statement: undefined for a ref of it that is not declared earlier (so for a
\* declaration that refers to the identifier it declares), else already
\* assigned.
C10_RefsDeclaredEarlier ==
    \A n \in DOMAIN ktrace :
        ktrace[n].pass = "checkInvalidReferenceDeclarations" =>
            LET stmts == ktrace[n].tplIn
                err == ktrace[n].err
                offending == {i \in DOMAIN stmts :
                                 Undeclared(stmts, i) # {} \/ Redeclares(stmts, i)}
            IN /\ (err = Nil) <=> (offending = {})
               /\ ktrace[n].tplOut = stmts
               /\ offending # {} =>
                     LET i == Min(offending)
                     IN IF Undeclared(stmts, i) # {}
                          THEN \E r \in Undeclared(stmts, i) :
                                  err = "using reference '$" \o r \o "' but '" \o r
                                           \o "' is undefined in template\n"
                          ELSE err = "using reference '$" \o stmts[i].ident \o "' but '"
                                        \o stmts[i].ident
                                        \o "' has already been assigned in template\n"

C10_Witness ==
    /\ kpc = "returned"
    /\ cin.mode = << <<"checkInvalidReferenceDeclarations">> >>
    /\ Len(cin.tpl) = 2
    /\ cin.tpl[1].type = "decl" /\ cin.tpl[1].ident = "x" /\ cin.tpl[1].expr.type = "value"
    /\ cin.tpl[2].type = "decl" /\ cin.tpl[2].ident = "y" /\ NodeRefs(cin.tpl[2].expr) = {"y"}
    /\ kerr = "using reference '$y' but 'y' is undefined in template\n"

\* the result of a pass application recorded in the trace
TraceResult(n) == [tpl |-> ktrace[n].tplOut, env |-> ktrace[n].envOut, err |-> ktrace[n].err]

\* C11: Compile is deterministic: what a pass made of its template and env
\* (template, env and error text) is what it makes of them under every
\* iteration order of the parameter maps, so two runs on equal inputs agree.
C11_Deterministic ==
    \A n \in DOMAIN ktrace :
        \A ord \in Orders :
            ApplyPass(ktrace[n].pass, ktrace[n].tplIn, ktrace[n].envIn, ord) = TraceResult(n)

\* the trace entries of a pass
RunsOf(pass) == {n \in DOMAIN ktrace : ktrace[n].pass = pass}

\* every command node of a template has a command in the env
AllFound(stmts, env) ==
    /\ env.lookupDefined
    /\ \A i \in DOMAIN stmts :
          HasCmd(stmts[i]) => Lookup(env, CmdKey(ExprOf(stmts[i]))) # NoCommand

\* the validation errors of the command node of statement i, as collected
CollectedAt(stmts, env, i) ==
    IF HasCmd(stmts[i]) /\ Lookup(env, CmdKey(ExprOf(stmts[i]))).valid
      THEN LET n == ExprOf(stmts[i])
               es == ValidateCommand(env, CmdKey(n))
           IN [j \in DOMAIN es |-> n.action \o " " \o n.entity \o ": " \o es[j]]
      ELSE <<>>

\* C14: validateCommands (every command found) collects the validation errors
\* of all command nodes in statement order: none, it succeeds; one, it
\* returns "validation error: <err>"; more, "validation errors:" followed by
\* every error; a command without ValidateCommand contributes none.
C14_CollectsAll ==
    \A n \in RunsOf("validateCommands") :
        LET stmts == ktrace[n].tplIn
            env == ktrace[n].envIn
            errs == Flatten([i \in DOMAIN stmts |-> CollectedAt(stmts, env, i)])
        IN AllFound(stmts, env) =>
              /\ ktrace[n].tplOut = stmts
              /\ \A i \in DOMAIN stmts :
                    HasCmd(stmts[i]) /\ ~Lookup(env, CmdKey(ExprOf(stmts[i]))).valid =>
                        CollectedAt(stmts, env, i) = <<>>
              /\ Len(errs) = 0 => ktrace[n].err = Nil
              /\ Len(errs) = 1 => ktrace[n].err = "validation error: " \o errs[1]
              /\ Len(errs) > 1 =>
                    ktrace[n].err = "validation errors:\n\t- " \o JoinWith(errs, "\n\t- ")

C14_Witness ==
    /\ kpc = "returned"
    /\ cin.mode = << <<"validateCommands">> >>
    /\ Len(cin.tpl) = 3
    /\ HasCmd(cin.tpl[2]) /\ CmdKey(ExprOf(cin.tpl[2])) = "deleteinstance"
    /\ kerr = "validation errors:\n\t- create instance: invalid createinstance"
                \o "\n\t- tag instance: invalid taginstance"

\* C15: injectCommands binds the looked-up command to every command node; if
\* the lookup returns no command for a node, the pass returns the error
\* "inject: cannot find command for '<key>'" and does not crash, in any mode
\* that contains the pass.
C15_InjectReturnsError ==
    /\ kpc # "panicked"
    /\ \A n \in RunsOf("injectCommands") :
          LET stmts == ktrace[n].tplIn
              env == ktrace[n].envIn
              missing == {i \in DOMAIN stmts :
                             HasCmd(stmts[i]) /\ Lookup(env, CmdKey(ExprOf(stmts[i]))) = NoCommand}
          IN IF missing = {}
               THEN /\ ktrace[n].err = Nil
                    /\ \A i \in DOMAIN stmts :
                          HasCmd(stmts[i]) =>
                             ExprOf(ktrace[n].tplOut[i]).command = CmdKey(ExprOf(stmts[i]))
               ELSE ktrace[n].err = "inject: cannot find command for '"
                                       \o CmdKey(ExprOf(stmts[Min(missing)])) \o "'"

\* the keys the Params rule of a command node reports as missing
MissingOf(env, n) == RuleMissing(Lookup(env, CmdKey(n)).rule, NodeKeys(n))

\* the rule error of a command node once its missing keys are added
RuleErrOf(env, n) ==
    RuleValidate(Lookup(env, CmdKey(n)).rule, NodeKeys(n) \cup MissingOf(env, n))

\* C16: processAndValidateParams (every command found) gives each command
\* node, for every key k its rule reports missing, a hole "<entity>.<k>"
\* under k and leaves the parameters present alone; it succeeds iff the
\* resulting key set of every node satisfies its rule, and fails with
\* "<action> <entity>: <rule error>" of the first node that does not.
C16_MissingBecomeHoles ==
    \A n \in RunsOf("processAndValidateParams") :
        LET stmts == ktrace[n].tplIn
            env == ktrace[n].envIn
            out == ktrace[n].tplOut
            bad == {i \in DOMAIN stmts :
                       HasCmd(stmts[i]) /\ RuleErrOf(env, ExprOf(stmts[i])) # Nil}
            last == IF bad = {} THEN Len(stmts) ELSE Min(bad)
        IN AllFound(stmts, env) =>
              /\ Len(out) = Len(stmts)
              /\ \A i \in DOMAIN stmts :
                    IF HasCmd(stmts[i]) /\ i <= last
                      THEN LET old == ExprOf(stmts[i])
                               new == ExprOf(out[i])
                           IN /\ out[i] = WithExpr(stmts[i], new)
                              /\ [new EXCEPT !.params = old.params] = old
                              /\ NodeKeys(new) = NodeKeys(old) \cup MissingOf(env, old)
                              /\ \A k \in NodeKeys(old) : new.params[k] = old.params[k]
                              /\ \A k \in MissingOf(env, old) :
                                    new.params[k] = Hole(old.entity \o "." \o k)
                      ELSE out[i] = stmts[i]
              /\ (ktrace[n].err = Nil) <=> (bad = {})
              /\ bad # {} =>
                    LET b == ExprOf(stmts[Min(bad)])
                    IN ktrace[n].err = b.action \o " " \o b.entity \o ": " \o RuleErrOf(env, b)

C16_Witness ==
    /\ kpc = "returned" /\ kerr = Nil
    /\ cin.mode = << <<"processAndValidateParams">> >>
    /\ Len(cin.tpl) = 2
    /\ cin.tpl[1] = CommandNode("create", "instance", P1("name", Hole("h2")))
    /\ newTpl[1] = CommandNode("create", "instance",
                       P2("name", Hole("h2"), "type", Hole("instance.type")))
    /\ newTpl[2] = cin.tpl[2]
    /\ cin.tpl[2].type = "decl" /\ HasCmd(cin.tpl[2])

\* a declaration whose expression is a ValueNode
ValueDecl(st) == st.type = "decl" /\ st.expr.type = "value"

\* value w is value v, or what a ref v was replaced by
ValueOrReplaced(v, w) == w = v \/ v.kind = "ref"

\* statement b is statement a up to the replacement of refs
SameUpToRefs(a, b) ==
    /\ a.type = b.type
    /\ a.type = "decl" => a.ident = b.ident
    /\ ExprOf(a).type = ExprOf(b).type
    /\ IF ExprOf(a).type = "cmd"
         THEN LET x == ExprOf(a)
                  y == ExprOf(b)
              IN /\ [y EXCEPT !.params = x.params] = x
                 /\ DOMAIN y.params = DOMAIN x.params
                 /\ \A k \in DOMAIN x.params : ValueOrReplaced(x.params[k], y.params[k])
         ELSE ValueOrReplaced(ExprOf(a).value, ExprOf(b).value)

\* the position in the output of the kept statement i
PosIn(K, i) == Cardinality({j \in K : j <= i})

\* out is made of the statements K of stmts, in order, up to replaced refs;
\* the others are value declarations; a value declaration that is kept has
\* an open hole; no kept statement refers to an earlier value declaration
KeepsInOrder(stmts, out, K) ==
    /\ Len(out) = Cardinality(K)
    /\ \A i \in K : SameUpToRefs(stmts[i], out[PosIn(K, i)])
    /\ \A i \in DOMAIN stmts \ K : ValueDecl(stmts[i])
    /\ \A i \in K : ValueDecl(stmts[i]) => ~IsResolved(out[PosIn(K, i)].expr)
    /\ \A i \in K : \A j \in 1..(i - 1) :
          ValueDecl(stmts[j]) => stmts[j].ident \notin NodeRefs(ExprOf(out[PosIn(K, i)]))

AskedBy(n) ==
    SubSeq(ktrace[n].envOut.asked, Len(ktrace[n].envIn.asked) + 1, Len(ktrace[n].envOut.asked))

\* hole name a comes before hole name b in lexicographic order
LexBefore(a, b) ==
    \E i, j \in DOMAIN HoleNamesSorted :
        i < j /\ HoleNamesSorted[i] = a /\ HoleNamesSorted[j] = b

\* C18: resolveMissingHoles calls the missing-holes callback once per
\* distinct name of an open hole, in ascending lexicographic order of the
\* names whatever the order of the holes in the template, and every node has
\* its holes filled with the values obtained; with no callback it calls
\* nothing, fills nothing and succeeds.
C18_SortedOncePerHole ==
    \A n \in RunsOf("resolveMissingHoles") :
        LET stmts == ktrace[n].tplIn
            out == ktrace[n].tplOut
            holes == TemplateHoles(stmts)
            asked == AskedBy(n)
        IN /\ ktrace[n].err = Nil
           /\ IF ktrace[n].envIn.missingHolesFunc
                THEN /\ {asked[i] : i \in DOMAIN asked} = holes
                     /\ Len(asked) = Cardinality(holes)
                     /\ \A i, j \in DOMAIN asked : i < j => LexBefore(asked[i], asked[j])
                     /\ TemplateHoles(out) = {}
                     /\ out = VisitProcessHoles(stmts, [h \in holes |-> MissingHolesValue(h)])
                     /\ \A h \in holes :
                           /\ h \in DOMAIN ktrace[n].envOut.processedFillers
                           /\ ktrace[n].envOut.processedFillers[h] = MissingHolesValue(h)
                ELSE /\ asked = <<>>
                     /\ out = stmts
                     /\ ktrace[n].envOut = ktrace[n].envIn

C18_Witness ==
    /\ kpc = "returned" /\ kerr = Nil
    /\ cin.mode = << <<"resolveMissingHoles">> >>
    /\ cin.tpl = << CommandNode("create", "instance", P1("name", Hole("h2"))),
                    DeclarationNode("y", ValueNode(Hole("h1"))),
                    CommandNode("create", "instance", P1("name", Hole("h2"))) >>
    /\ newEnv.asked = <<"h1", "h2">>
    /\ TemplateHoles(newTpl) = {}

\* C19: resolveMeta replaces every command node for which the meta lookup
\* returns a handler, be it a statement or the expression of a declaration,
\* by the statements of the handler's sub-template, spliced at its position,
\* all other statements kept in order; with no meta lookup the template is
\* left unchanged.
C19_MetaSpliced ==
    \A n \in RunsOf("resolveMeta") :
        LET stmts == ktrace[n].tplIn
            env == ktrace[n].envIn
        IN IF env.meta = Nil
             THEN ktrace[n].tplOut = stmts /\ ktrace[n].err = Nil
             ELSE ktrace[n].err = Nil =>
                     ktrace[n].tplOut =
                        Flatten([i \in DOMAIN stmts |->
                                    IF HasCmd(stmts[i]) /\ LookupMeta(env, ExprOf(stmts[i])) # Nil
                                      THEN MetaResolved ELSE <<stmts[i]>>])

\* the alias values of a template
AliasValues(stmts) ==
    UNION { LET e == ExprOf(stmts[i])
            IN IF e.type = "cmd"
                 THEN {e.params[k] : k \in {x \in DOMAIN e.params : e.params[x].kind = "alias"}}
                 ELSE IF e.value.kind = "alias" THEN {e.value} ELSE {}
          : i \in DOMAIN stmts }

\* every alias of a template is resolved to a non-empty string
AllAliasesResolved(stmts) == \A v \in AliasValues(stmts) : v.val # Nil /\ v.val # ""

====
